---- MODULE Spec2Model ----
(***************************************************************************)
(* A model of dataplot: the formula-tracking dataset wrapper (PlotDataSet  *)
(* in src/src/dataset.py) and the broadcast proxy (MultiObject in          *)
(* src/src/utils/multis.py).                                               *)
(*                                                                         *)
(* Strings are sequences of tokens: "(" and ")" are tokens of their own,   *)
(* so str.startswith("(") is "the first token is (".  The placeholder of   *)
(* a template is the token "{0}".  Arrays are symbolic: an array is the    *)
(* term of the numpy calls that produced it, over the arrays handed to the *)
(* factory.                                                                *)
(***************************************************************************)
EXTENDS Integers, Sequences, FiniteSets, TLC

VARIABLES
    objs,     \* the wrapper instances, in order of construction
    err,      \* the exception the last call raised, "" when it returned
    steps,    \* calls made on wrappers so far
    call,     \* the last call: its name and the index of its receiver
    proxies,  \* the MultiObject instances, in order of construction
    trace,    \* the calls on items that the last proxy call made, in order
    ret,      \* what the last operation on a proxy or a group returned
    groups    \* the PlotDataSets instances, in order of construction

vars == <<objs, err, steps, call, proxies, trace, ret, groups>>
dataset == <<objs, err, steps, groups>>
multis == <<proxies, trace, ret>>

\* ------------------------------------------------------------------ bounds
\* Wrapper instances alive in one run (the factory's and the transforms').
MaxObjs == 5

\* Calls made on wrappers in one run.
MaxSteps == 3

\* MultiObject instances alive in one run.
MaxProxies == 3

\* PlotDataSets instances alive in one run, and the members of one of them.
MaxGroups == 4
MaxMembers == 4

\* ------------------------------------------------------------------ values
\* Python's None for an optional argument: the empty option; Some(x) holds x.
None == <<>>
Some(x) == <<x>>

\* A symbolic array or number, and numpy calls on them.
Leaf(name) == [op |-> name, args |-> <<>>]
Ap1(f, x) == [op |-> f, args |-> <<x>>]
Ap2(f, x, y) == [op |-> f, args |-> <<x, y>>]

\* The arrays handed to the factory, and the labels given with them.
Arrays == {"A", "B", "C"}

\* The numbers used as scalar operands, by their str().
Scalars == {"1", "2"}

\* The window sizes given to rolling(), by their str().
Windows == {"3"}

\* ------------------------------------------------------------------ strings
\* str.format(label) on a template: every placeholder becomes the label.
RECURSIVE Format(_, _)
Format(fmt, label) ==
    IF fmt = <<>> THEN <<>>
    ELSE (IF Head(fmt) = "{0}" THEN label ELSE <<Head(fmt)>>)
         \o Format(Tail(fmt), label)

\* PlotDataSet.__remove_brackets
RemoveBrackets(string) ==
    IF Len(string) >= 2 /\ string[1] = "(" /\ string[Len(string)] = ")"
    THEN SubSeq(string, 2, Len(string) - 1)
    ELSE string

\* PlotDataSet.__auto_remove_brackets
AutoRemoveBrackets(self, string, priority) ==
    IF priority = 0 \/ self.last_op_prior <= priority
    THEN RemoveBrackets(string)
    ELSE string

\* PlotDataSet.fmt (property)
Fmt(self) == RemoveBrackets(self.fmt_)

\* formatted_label without the step down at the boundary priorities 19 and 29.
FormattedLabelNoRelax(self, priority) ==
    AutoRemoveBrackets(self, Format(self.fmt_, self.label), priority)

\* PlotDataSet.formatted_label
FormattedLabel(self, priority) ==
    LET p == IF priority = self.last_op_prior /\ priority \in {19, 29}
             THEN priority - 1 ELSE priority
    IN AutoRemoveBrackets(self, Format(self.fmt_, self.label), p)

\* ------------------------------------------------------------------ settings
\* The value of a setting is an option of a plain value or of a dict.
Str(s) == [str |-> s]
Dict(d) == [dict |-> d]

\* isinstance(v, dict)
IsDict(v) == DOMAIN v = {"dict"}

\* SettingKey of artist.py, in the order of PlotSettings.keys()
SettingKeys ==
    <<"title", "xlabel", "ylabel", "alpha", "dpi", "figsize", "style",
      "legend_loc", "subplots_adjust">>
SettingKey == {SettingKeys[n] : n \in DOMAIN SettingKeys}

\* PlotSettings(): every field None
PlotSettings == [k \in SettingKey |-> None]

\* ------------------------------------------------------------------ wrappers
\* PlotDataSet(data, label) with __attrs_post_init__
PlotDataSet(data, label) ==
    [data |-> data,
     label |-> IF label = None THEN <<"x1">> ELSE label[1],
     fmt_ |-> <<"{0}">>,
     original_data |-> data,
     settings |-> PlotSettings,
     last_op_prior |-> 0]

\* Plotter.customize(cls, *args) for cls = PlotDataSet: a new instance with a
\* copy of the receiver's settings.
Customize(self, data, label) ==
    [PlotDataSet(data, label) EXCEPT !.settings = self.settings]

\* __create handing customize the current data for original_data.
CreateFromData(self, fmt, data, priority) ==
    [Customize(self, self.data, Some(self.label)) EXCEPT
        !.fmt_ = fmt, !.data = data, !.last_op_prior = priority]

\* PlotDataSet.__create
Create(self, fmt, data, priority) ==
    [Customize(self, self.original_data, Some(self.label)) EXCEPT
        !.fmt_ = fmt, !.data = data, !.last_op_prior = priority]

\* __neg__ comparing against its own priority 40 instead of 28.
NegOwnPriority(self) ==
    Create(self,
           <<"(", "-">> \o AutoRemoveBrackets(self, self.fmt_, 40) \o <<")">>,
           Ap1("negative", self.data),
           40)

\* PlotDataSet.__neg__
Neg(self) ==
    Create(self,
           <<"(", "-">> \o AutoRemoveBrackets(self, self.fmt_, 28) \o <<")">>,
           Ap1("negative", self.data),
           40)

\* The binary operators: sign, numpy function, priority (__add__ .. __rpow__;
\* ** takes __binary_operation's default priority).
BinOps ==
    { [sign |-> "+", func |-> "add", priority |-> 30],
      [sign |-> "-", func |-> "subtract", priority |-> 29],
      [sign |-> "*", func |-> "multiply", priority |-> 20],
      [sign |-> "/", func |-> "true_divide", priority |-> 19],
      [sign |-> "**", func |-> "power", priority |-> 10] }

\* An operand of a binary operation: a number (by its str()), a wrapper, or
\* a value that is neither, such as a list or a str.
NumOperand(s) == [kind |-> "num", str |-> s, data |-> Leaf(s)]
SetOperand(o) == [kind |-> "set", obj |-> o]
ListOperand == [kind |-> "list", str |-> "[1, 2]", data |-> Leaf("[1, 2]")]
StrOperand == [kind |-> "str", str |-> "s", data |-> Leaf("s")]

\* PlotDataSet.__binary_operation, the reverse branch (other op self): the
\* result, or the error raised.  No type check is made here: the operand
\* goes to the numpy function as it is, which takes a list as an array and
\* raises TypeError on a str.
BinaryReverse(self, other, op) ==
    LET this_fmt == AutoRemoveBrackets(self, self.fmt_, op.priority)
        new_fmt == <<"(", other.str, op.sign>> \o this_fmt \o <<")">>
    IN IF other.kind = "str"
       THEN [raise |-> "TypeError"]
       ELSE [raise |-> "",
             obj |-> Create(self, new_fmt,
                            Ap2(op.func, other.data, self.data), op.priority)]

\* The forward branch writing the other wrapper's template into the new one
\* in place of its formatted label.
BinaryForwardRawOther(self, other, op) ==
    LET this_fmt == AutoRemoveBrackets(self, self.fmt_, op.priority + 1)
    IN IF other.kind = "num"
       THEN [raise |-> "",
             obj |-> Create(self,
                            <<"(">> \o this_fmt \o <<op.sign, other.str, ")">>,
                            Ap2(op.func, self.data, other.data), op.priority)]
       ELSE IF other.kind = "set"
       THEN [raise |-> "",
             obj |-> Create(self,
                            <<"(">> \o this_fmt \o <<op.sign>>
                              \o other.obj.fmt_ \o <<")">>,
                            Ap2(op.func, self.data, other.obj.data),
                            op.priority)]
       ELSE [raise |-> "ValueError"]

\* PlotDataSet.__binary_operation, the forward branch (self op other).
BinaryForward(self, other, op) ==
    LET this_fmt == AutoRemoveBrackets(self, self.fmt_, op.priority + 1)
    IN IF other.kind = "num"
       THEN [raise |-> "",
             obj |-> Create(self,
                            <<"(">> \o this_fmt \o <<op.sign, other.str, ")">>,
                            Ap2(op.func, self.data, other.data), op.priority)]
       ELSE IF other.kind = "set"
       THEN [raise |-> "",
             obj |-> Create(self,
                            <<"(">> \o this_fmt \o <<op.sign>>
                              \o FormattedLabel(other.obj, op.priority)
                              \o <<")">>,
                            Ap2(op.func, self.data, other.obj.data),
                            op.priority)]
       ELSE [raise |-> "ValueError"]

\* log / exp / cumsum written with the raw template self.fmt_ for self.fmt.
FuncOpRawTemplate(self, name, func) ==
    Create(self, <<name, "(">> \o self.fmt_ \o <<")">>, Ap1(func, self.data), 0)

\* PlotDataSet.log / exp / cumsum: func(self.fmt), priority 0.
FuncOp(self, name, func) ==
    Create(self, <<name, "(">> \o Fmt(self) \o <<")">>, Ap1(func, self.data), 0)

\* PlotDataSet.rolling
Rolling(self, n) ==
    Create(self, <<"rolling", "(">> \o Fmt(self) \o <<", ", n, ")">>,
           Ap2("rolling_mean", self.data, Leaf(n)), 0)

\* PlotDataSet.demean
Demean(self) ==
    Create(self, Fmt(self) \o <<"-", "mean", "(">> \o Fmt(self) \o <<")">>,
           Ap2("subtract", self.data, Ap1("nanmean", self.data)), 0)

\* PlotDataSet.zscore
Zscore(self) ==
    Create(self,
           <<"(">> \o Fmt(self) \o <<"-", "mean", "(">> \o Fmt(self)
             \o <<")", ")", "/", "std", "(">> \o Fmt(self) \o <<")">>,
           Ap2("true_divide",
               Ap2("subtract", self.data, Ap1("nanmean", self.data)),
               Ap1("nanstd", self.data)),
           0)

\* PlotDataSet.opclear: the instance itself, changed.
Opclear(self) ==
    [self EXCEPT !.fmt_ = <<"{0}">>, !.data = self.original_data]

\* PlotDataSet.opclear_records_only
OpclearRecordsOnly(self) ==
    [self EXCEPT !.fmt_ = <<"{0}">>, !.original_data = self.data]

\* PlotDataSet.set_label(__label, **kwargs): kwargs maps old labels to new.
SetLabel(self, label, kwargs) ==
    IF label # None THEN [self EXCEPT !.label = label[1]]
    ELSE IF self.label \in DOMAIN kwargs
    THEN [self EXCEPT !.label = kwargs[self.label]]
    ELSE self

\* Plotter._set for the key title, as PlotDataSet.set_plot calls it: None
\* leaves the setting alone.
SetPlot(self, title) ==
    IF title # None THEN [self EXCEPT !.settings.title = title] ELSE self

\* core.data(x, label) for a single array
data(x, label) == PlotDataSet(x, label)

\* The values tried as arguments.
LabelInputs == {None, Some(<<"n">>), Some(<<"(", "p", ")">>)}
KwargsInputs == {<<>>, (<<"x1">> :> <<"m">>)}
TitleInputs == {None, Some(Str("T"))}
Unsupported == {ListOperand, StrOperand}

\* ------------------------------------------------------------------ actions
\* core.data(x, label) for single arrays: the wrappers the run starts with.
Init ==
    /\ objs = << data(Leaf("A"), None),
                 data(Leaf("B"), Some(<<"b">>)),
                 data(Leaf("C"), Some(<<"c">>)) >>
    /\ err = ""
    /\ steps = 0
    /\ call = [name |-> "data", self |-> 0]
    /\ proxies = <<>>
    /\ trace = <<>>
    /\ ret = [atom |-> "None"]
    /\ groups = <<>>

Ids == 1..Len(objs)

\* Room for one more call that may construct a wrapper.
CanCall == steps < MaxSteps /\ Len(objs) < MaxObjs

\* The call of the method name on the wrapper objs[i].
Called(name, i) ==
    /\ call' = [name |-> name, self |-> i]
    /\ UNCHANGED multis
    /\ UNCHANGED groups

\* A call that returns a new wrapper.
Returns(obj) ==
    /\ objs' = Append(objs, obj)
    /\ err' = ""
    /\ steps' = steps + 1

\* A call that raises.
Raises(e) ==
    /\ objs' = objs
    /\ err' = e
    /\ steps' = steps + 1

Outcome(r) == IF r.raise = "" THEN Returns(r.obj) ELSE Raises(r.raise)

\* -d, for the wrapper d = objs[i]
DoNeg(i) == CanCall /\ Called("__neg__", i) /\ Returns(Neg(objs[i]))

\* d op v, for a number or a wrapper v, or a value that is neither
DoBinary(i, v, op) ==
    /\ CanCall
    /\ Called("__binary_operation", i)
    /\ Outcome(BinaryForward(objs[i], v, op))

\* v op d, for a number v or a value that is none (a wrapper on the left
\* takes the forward form)
DoBinaryReverse(i, v, op) ==
    /\ CanCall
    /\ Called("__binary_operation", i)
    /\ Outcome(BinaryReverse(objs[i], v, op))

\* d.log(), d.exp(), d.cumsum()
DoLog(i) == CanCall /\ Called("log", i) /\ Returns(FuncOp(objs[i], "log", "log"))
DoExp(i) == CanCall /\ Called("exp", i) /\ Returns(FuncOp(objs[i], "exp", "exp"))
DoCumsum(i) == CanCall /\ Called("cumsum", i) /\ Returns(FuncOp(objs[i], "csum", "cumsum"))

\* d.rolling(n)
DoRolling(i, n) == CanCall /\ Called("rolling", i) /\ Returns(Rolling(objs[i], n))

\* d.demean(), d.zscore()
DoDemean(i) == CanCall /\ Called("demean", i) /\ Returns(Demean(objs[i]))
DoZscore(i) == CanCall /\ Called("zscore", i) /\ Returns(Zscore(objs[i]))

\* A call in place whose change reaches every instance that shares the
\* receiver's original_data, as if the instances built from a wrapper were
\* views of it.
InPlaceShared(name, i, obj) ==
    /\ steps < MaxSteps
    /\ Called(name, i)
    /\ objs' = [k \in DOMAIN objs |->
                  IF objs[k].original_data = objs[i].original_data
                  THEN [objs[k] EXCEPT !.label = obj.label, !.fmt_ = obj.fmt_,
                                       !.data = obj.data]
                  ELSE objs[k]]
    /\ err' = ""
    /\ steps' = steps + 1

\* The call of name on instance i, which changes it in place and returns it.
InPlace(name, i, obj) ==
    /\ steps < MaxSteps
    /\ Called(name, i)
    /\ objs' = [objs EXCEPT ![i] = obj]
    /\ err' = ""
    /\ steps' = steps + 1

\* d.opclear(), d.opclear_records_only()
DoOpclear(i) == InPlace("opclear", i, Opclear(objs[i]))
DoOpclearRecordsOnly(i) == InPlace("opclear_records_only", i, OpclearRecordsOnly(objs[i]))

\* d.set_label(label, **kwargs)
DoSetLabel(i, label, kwargs) == InPlace("set_label", i, SetLabel(objs[i], label, kwargs))

\* d.set_plot(title=title)
DoSetPlot(i, title) == InPlace("set_plot", i, SetPlot(objs[i], title))

\* The operands of the supported forms.
Numbers == {NumOperand(s) : s \in Scalars}
Wrappers == {SetOperand(objs[j]) : j \in Ids}

\* A transform of the wrapper objs[i] with supported operands.
Transform(i) ==
    \/ DoNeg(i)
    \/ \E v \in Numbers \cup Wrappers, op \in BinOps : DoBinary(i, v, op)
    \/ \E v \in Numbers, op \in BinOps : DoBinaryReverse(i, v, op)
    \/ DoLog(i)
    \/ DoExp(i)
    \/ DoCumsum(i)
    \/ \E n \in Windows : DoRolling(i, n)
    \/ DoDemean(i)
    \/ DoZscore(i)

\* A binary operation of objs[i] with an operand that is not supported.
BadOperand(i) ==
    \/ \E v \in Unsupported, op \in BinOps : DoBinary(i, v, op)
    \/ \E v \in Unsupported, op \in BinOps : DoBinaryReverse(i, v, op)

\* A relabelling of objs[i].
Relabel(i) ==
    \E label \in LabelInputs, kwargs \in KwargsInputs : DoSetLabel(i, label, kwargs)

\* The transforms: expressions are built, nothing is relabelled or reset.
NextExpr == \E i \in Ids : Transform(i)

SpecExpr == Init /\ [][NextExpr]_vars

\* The transforms applied in longer chains to the wrapper of a single array.
InitChain ==
    /\ objs = << data(Leaf("A"), None) >>
    /\ err = ""
    /\ steps = 0
    /\ call = [name |-> "data", self |-> 0]
    /\ proxies = <<>>
    /\ trace = <<>>
    /\ ret = [atom |-> "None"]
    /\ groups = <<>>

SpecChain == InitChain /\ [][NextExpr]_vars

\* Two wrappers from core.data and two transforms of them: a, b, a * 2, b.log().
InitDerived ==
    LET a == data(Leaf("A"), None)
        b == data(Leaf("B"), Some(<<"b">>))
        times == CHOOSE op \in BinOps : op.sign = "*"
    IN /\ objs = << a, b, BinaryForward(a, NumOperand("2"), times).obj,
                    FuncOp(b, "log", "log") >>
       /\ err = ""
       /\ steps = 0
       /\ call = [name |-> "log", self |-> 2]
       /\ proxies = <<>>
       /\ trace = <<>>
       /\ ret = [atom |-> "None"]
       /\ groups = <<>>

\* The transforms and relabelling.
NextLabel == \E i \in Ids : Transform(i) \/ Relabel(i)

SpecLabel == InitDerived /\ [][NextLabel]_vars

\* Every call on a wrapper.
Next ==
    \E i \in Ids :
        \/ Transform(i)
        \/ BadOperand(i)
        \/ Relabel(i)
        \/ DoOpclear(i)
        \/ DoOpclearRecordsOnly(i)
        \/ \E title \in TitleInputs : DoSetPlot(i, title)

Spec == InitDerived /\ [][Next]_vars

\* The transforms, relabelling and the resets, on the wrapper of a single
\* array and on what is built from it.
NextReset ==
    \E i \in Ids :
        \/ Transform(i)
        \/ Relabel(i)
        \/ DoOpclear(i)
        \/ DoOpclearRecordsOnly(i)

SpecReset == InitChain /\ [][NextReset]_vars

\* -------------------------------------------------------------- MultiObject
\* Python values of the proxy model: atoms, references to MultiObject
\* instances, attribute values, lists, and the result of a call, which is
\* the call itself (callable, positional arguments, keyword arguments); the
\* callable noop returns None, and None is not callable.
Atom(name) == [atom |-> name]
Ref(j) == [ref |-> j]
Getattr(x, name) == [self |-> x, name |-> name]
List(xs) == [list |-> xs]
IsNone(v) == DOMAIN v = {"atom"} /\ v.atom = "None"
IsNoop(f) == DOMAIN f = {"atom"} /\ f.atom = "noop"
Invoke(f, args, kwargs) ==
    IF IsNoop(f) THEN Atom("None")
    ELSE [fn |-> f, args |-> args, kwargs |-> kwargs]

\* isinstance(a, self.__class__)
IsMultiObject(a) == DOMAIN a = {"ref"}

\* MultiObject.__init__
MultiObject(items, call_reducer, call_reflex) ==
    [items |-> items, call_reducer |-> call_reducer, call_reflex |-> call_reflex]

\* __getattr__ handing on the call reducer only.
MultiGetattrNoReflex(self, name) ==
    MultiObject([i \in DOMAIN self.items |-> Getattr(self.items[i], name)],
                self.call_reducer, None)

\* MultiObject.__getattr__
MultiGetattr(self, name) ==
    MultiObject([i \in DOMAIN self.items |-> Getattr(self.items[i], name)],
                self.call_reducer, self.call_reflex)

\* The argument a handed to every item as it is.
UnzipNot(a, i) == a

\* a.__multiobjects__[i] if isinstance(a, self.__class__) else a
Unzip(a, i) == IF IsMultiObject(a) THEN proxies[a.ref].items[i] ELSE a

\* a.__multiobjects__[i] raises IndexError
TooShort(a, i) == IsMultiObject(a) /\ i > Len(proxies[a.ref].items)

\* The assignment clean_kwargs[key] = r that keeps a value the caller gave.
SetItemKeepCaller(kwargs, key, r) ==
    IF key \in DOMAIN kwargs THEN kwargs
    ELSE [k \in DOMAIN kwargs \cup {key} |-> IF k = key THEN r ELSE kwargs[k]]

\* clean_kwargs[self.__call_reflex] = r
SetItem(kwargs, key, r) ==
    [k \in DOMAIN kwargs \cup {key} |-> IF k = key THEN r ELSE kwargs[k]]

\* The loop of __call__ run over the items from the last to the first.
CallItemsBackwards(self, args, kwargs, i, returns) ==
    LET n == Len(self.items)
    IN [raise |-> "",
        returns |-> [k \in 1..n |-> Invoke(self.items[n + 1 - k], args, kwargs)]]

\* The loop of MultiObject.__call__ from item i on, in the order of the list,
\* with the returns collected so far; the results of the items are the
\* calls made on them.
RECURSIVE CallItems(_, _, _, _, _)
CallItems(self, args, kwargs, i, returns) ==
    IF i > Len(self.items) THEN [raise |-> "", returns |-> returns]
    ELSE IF \/ \E k \in DOMAIN args : TooShort(args[k], i)
            \/ \E k \in DOMAIN kwargs : TooShort(kwargs[k], i)
    THEN [raise |-> "IndexError", returns |-> returns]
    ELSE IF IsNone(self.items[i])
    THEN [raise |-> "TypeError", returns |-> returns]
    ELSE LET clean_args == [k \in DOMAIN args |-> Unzip(args[k], i)]
             unzipped == [k \in DOMAIN kwargs |-> Unzip(kwargs[k], i)]
             clean_kwargs == IF self.call_reflex # None /\ i > 1
                             THEN SetItem(unzipped, self.call_reflex[1],
                                          returns[i - 1])
                             ELSE unzipped
             r == Invoke(self.items[i], clean_args, clean_kwargs)
         IN CallItems(self, args, kwargs, i + 1, Append(returns, r))

\* cleaner returning None as soon as one element of the list is None.
CleanerAny(x) ==
    IF \E i \in DOMAIN x : IsNone(x[i]) THEN Atom("None")
    ELSE MultiObject(x, Some(Atom("cleaner")), None)

\* cleaner(x): None, or the MultiObject it constructs
Cleaner(x) ==
    IF \A i \in DOMAIN x : IsNone(x[i]) THEN Atom("None")
    ELSE MultiObject(x, Some(Atom("cleaner")), None)

\* The values tried as items, reducers, reflex keys, attribute names and
\* arguments.
ItemLists == {<<>>, <<Atom("x")>>, <<Atom("x"), Atom("y")>>,
              <<Atom("y"), Atom("x"), Atom("x")>>}
Reducers == {None, Some(Atom("R"))}
Reflexes == {None, Some("k")}
Names == {"method"}
NoKwargs == <<>>
Arguments(args, kwargs) == [args |-> args, kwargs |-> kwargs]
CallInputs ==
    {Arguments(<<>>, NoKwargs),
     Arguments(<<Atom("a")>>, [w |-> Atom("b")]),
     Arguments(<<Atom("a")>>, [k |-> Atom("c")])}
    \cup {Arguments(<<Atom("a"), Ref(j)>>, [w |-> Ref(j)]) : j \in DOMAIN proxies}

\* The run of the proxy starts with no instance.
InitMulti ==
    /\ proxies = <<>>
    /\ trace = <<>>
    /\ ret = Atom("None")
    /\ call = [name |-> "", self |-> 0, args |-> <<>>, kwargs |-> NoKwargs]
    /\ objs = <<>>
    /\ err = ""
    /\ steps = 0
    /\ groups = <<>>

\* MultiObject(items, call_reducer=..., call_reflex=...)
DoMultiObject(items, call_reducer, call_reflex) ==
    /\ Len(proxies) < MaxProxies
    /\ proxies' = Append(proxies, MultiObject(items, call_reducer, call_reflex))
    /\ trace' = <<>>
    /\ ret' = Ref(Len(proxies) + 1)
    /\ call' = [name |-> "__init__", self |-> Len(proxies) + 1,
                args |-> <<>>, kwargs |-> NoKwargs]
    /\ UNCHANGED dataset

\* proxies[j].name : the attribute read
DoGetattr(j, name) ==
    /\ Len(proxies) < MaxProxies
    /\ proxies' = Append(proxies, MultiGetattr(proxies[j], name))
    /\ trace' = <<>>
    /\ ret' = Ref(Len(proxies) + 1)
    /\ call' = [name |-> "__getattr__", self |-> j,
                args |-> <<Atom(name)>>, kwargs |-> NoKwargs]
    /\ UNCHANGED dataset

\* proxies[j](*args, **kwargs)
DoCall(j, args, kwargs) ==
    LET self == proxies[j]
        out == CallItems(self, args, kwargs, 1, <<>>)
    IN /\ call' = [name |-> "__call__", self |-> j,
                   args |-> args, kwargs |-> kwargs]
       /\ trace' = out.returns
       /\ IF out.raise # ""
          THEN ret' = [raise |-> out.raise] /\ proxies' = proxies
          ELSE IF self.call_reducer = Some(Atom("cleaner"))
          THEN LET made == Cleaner(out.returns)
               IN IF IsNone(made)
                  THEN ret' = made /\ proxies' = proxies
                  ELSE /\ Len(proxies) < MaxProxies
                       /\ proxies' = Append(proxies, made)
                       /\ ret' = Ref(Len(proxies) + 1)
          ELSE IF self.call_reducer # None
          THEN /\ ret' = Invoke(self.call_reducer[1], <<List(out.returns)>>,
                                NoKwargs)
               /\ proxies' = proxies
          ELSE /\ Len(proxies) < MaxProxies
               /\ proxies' = Append(proxies,
                                    MultiObject(out.returns, None,
                                                self.call_reflex))
               /\ ret' = Ref(Len(proxies) + 1)
       /\ UNCHANGED dataset

\* Every operation on a proxy.
NextMulti ==
    \/ \E items \in ItemLists, call_reducer \in Reducers, call_reflex \in Reflexes :
          DoMultiObject(items, call_reducer, call_reflex)
    \/ \E j \in DOMAIN proxies, name \in Names : DoGetattr(j, name)
    \/ \E j \in DOMAIN proxies, given \in CallInputs :
          DoCall(j, given.args, given.kwargs)

SpecMulti == InitMulti /\ [][NextMulti]_vars

\* The lists handed to cleaner, and the items of the proxies that reduce
\* with it: some of their calls return None.
ResultLists == {<<>>, <<Atom("None")>>, <<Atom("None"), Atom("None")>>,
                <<Atom("None"), Atom("v")>>, <<Atom("v"), Atom("None"), Atom("v")>>}
BranchLists == {<<Atom("noop")>>, <<Atom("noop"), Atom("noop"), Atom("noop")>>,
                <<Atom("noop"), Atom("x")>>, <<Atom("x"), Atom("noop"), Atom("noop")>>}

\* cleaner(x)
DoCleaner(x) ==
    LET made == Cleaner(x)
    IN /\ call' = [name |-> "cleaner", self |-> 0,
                   args |-> <<List(x)>>, kwargs |-> NoKwargs]
       /\ trace' = <<>>
       /\ IF IsNone(made)
          THEN ret' = made /\ proxies' = proxies
          ELSE /\ Len(proxies) < MaxProxies
               /\ proxies' = Append(proxies, made)
               /\ ret' = Ref(Len(proxies) + 1)
       /\ UNCHANGED dataset

\* cleaner on its own and as the call reducer of a proxy.
NextCleaner ==
    \/ \E x \in ResultLists : DoCleaner(x)
    \/ \E items \in BranchLists : DoMultiObject(items, Some(Atom("cleaner")), None)
    \/ \E j \in DOMAIN proxies, given \in CallInputs :
          DoCall(j, given.args, given.kwargs)

SpecCleaner == InitMulti /\ [][NextCleaner]_vars

\* ------------------------------------------------------------- PlotDataSets
\* References to instances: a PlotDataSet objs[i], a PlotDataSets groups[g].
WrapperRef(i) == [set |-> i]
GroupRef(g) == [group |-> g]

\* isinstance(a, self.__class__) in PlotDataSets.__init__
IsGroup(a) == DOMAIN a = {"group"}

\* The loop of PlotDataSets.__init__: self.children after the arguments args.
RECURSIVE Extended(_)
Extended(args) ==
    IF args = <<>> THEN <<>>
    ELSE LET a == args[Len(args)]
         IN Extended(SubSeq(args, 1, Len(args) - 1))
              \o (IF IsGroup(a) THEN groups[a.group].children ELSE <<a>>)

\* PlotDataSets.__init__ appending every argument as it is.
PlotDataSetsNested(args) ==
    IF args = <<>> THEN [raise |-> "ValueError"]
    ELSE [raise |-> "", children |-> args]

\* PlotDataSets.__init__
PlotDataSets(args) ==
    IF args = <<>> THEN [raise |-> "ValueError"]
    ELSE [raise |-> "", children |-> Extended(args)]

\* PlotDataSet.join, which a group reaches through PlotDataSets.__getattr__
Join(self, others) == PlotDataSets(<<self>> \o others)

\* PlotDataSet.batched accepting the batch size 0.
BatchedFromZero(self, n) ==
    IF n < 0 THEN [raise |-> "ValueError"] ELSE [raise |-> "", value |-> self]

\* PlotDataSet.batched
Batched(self, n) ==
    IF n <= 0 THEN [raise |-> "ValueError"] ELSE [raise |-> "", value |-> self]

\* multi(attr_reducer=cleaner): a proxy without items
Multi == MultiObject(<<>>, None, None)

\* range(0, m, n) without a last start whose batch would be short.
RangeOfFull(m, n) == [k \in 1..(m \div n) |-> (k - 1) * n]

\* range(0, m, n) for n > 0
RangeOf(m, n) == [k \in 1..((m + n - 1) \div n) |-> (k - 1) * n]

\* self.children[i : i + n]
Slice(children, i, n) ==
    SubSeq(children, i + 1, IF i + n < Len(children) THEN i + n ELSE Len(children))

\* PlotDataSets.batched: the children of the groups appended to the proxy,
\* in order; range(0, m, 0) raises ValueError.
GroupBatched(self, n) ==
    IF Batched(self, n).raise # "" THEN [raise |-> Batched(self, n).raise]
    ELSE IF n = 0 THEN [raise |-> "ValueError"]
    ELSE LET starts == RangeOf(Len(self.children), n)
         IN [raise |-> "",
             batches |-> [k \in DOMAIN starts |->
                            PlotDataSets(Slice(self.children, starts[k], n)).children]]

\* The values tried as arguments.
Refs == {WrapperRef(i) : i \in DOMAIN objs} \cup {GroupRef(g) : g \in DOMAIN groups}
OthersInputs ==
    {<<>>} \cup {<<r>> : r \in Refs} \cup {<<r, WrapperRef(1)>> : r \in Refs}
BatchSizes == {-1, 0, 1, 2}

\* The call of name on the instance self, with args.
CalledOn(name, self, args) ==
    /\ steps < MaxSteps
    /\ steps' = steps + 1
    /\ call' = [name |-> name, self |-> self, args |-> args]
    /\ trace' = <<>>

\* A call that raises and constructs nothing.
Rejects(e) ==
    /\ err' = e
    /\ UNCHANGED <<objs, groups, proxies, ret>>

\* PlotDataSets(*args), with self = 0 for the instance under construction
DoPlotDataSets(args) ==
    LET made == PlotDataSets(args)
    IN /\ CalledOn("PlotDataSets", 0, args)
       /\ IF made.raise # "" THEN Rejects(made.raise)
          ELSE /\ Len(groups) < MaxGroups
               /\ Len(made.children) <= MaxMembers
               /\ groups' = Append(groups, [children |-> made.children])
               /\ ret' = GroupRef(Len(groups) + 1)
               /\ err' = ""
               /\ UNCHANGED <<objs, proxies>>

\* self.join(*others)
DoJoin(self, others) ==
    LET made == Join(self, others)
    IN /\ CalledOn("join", self, others)
       /\ Len(groups) < MaxGroups
       /\ Len(made.children) <= MaxMembers
       /\ groups' = Append(groups, [children |-> made.children])
       /\ ret' = GroupRef(Len(groups) + 1)
       /\ err' = ""
       /\ UNCHANGED <<objs, proxies>>

\* self.batched(n)
DoBatched(self, n) ==
    /\ CalledOn("batched", self, <<n>>)
    /\ IF ~IsGroup(self)
       THEN LET out == Batched(self, n)
            IN IF out.raise # "" THEN Rejects(out.raise)
               ELSE /\ ret' = out.value
                    /\ err' = ""
                    /\ UNCHANGED <<objs, groups, proxies>>
       ELSE LET out == GroupBatched(groups[self.group], n)
            IN IF out.raise # "" THEN Rejects(out.raise)
               ELSE /\ Len(groups) + Len(out.batches) <= MaxGroups
                    /\ Len(proxies) < MaxProxies
                    /\ groups' = groups \o [k \in DOMAIN out.batches |->
                                             [children |-> out.batches[k]]]
                    /\ proxies' = Append(proxies,
                                    [Multi EXCEPT !.items =
                                        [k \in DOMAIN out.batches |->
                                            GroupRef(Len(groups) + k)]])
                    /\ ret' = Ref(Len(proxies) + 1)
                    /\ err' = ""
                    /\ UNCHANGED objs

\* data([A, B, C]): three wrappers and the group of them.
InitJoin ==
    /\ objs = << data(Leaf("A"), Some(<<"x1">>)), data(Leaf("B"), Some(<<"x2">>)),
                 data(Leaf("C"), Some(<<"x3">>)) >>
    /\ groups = << [children |-> <<WrapperRef(1), WrapperRef(2), WrapperRef(3)>>] >>
    /\ proxies = <<>>
    /\ trace = <<>>
    /\ ret = GroupRef(1)
    /\ err = ""
    /\ steps = 0
    /\ call = [name |-> "data", self |-> 0, args |-> <<>>]

\* Joining and batching.
NextJoin ==
    \/ \E args \in {<<>>, <<WrapperRef(2)>>} : DoPlotDataSets(args)
    \/ \E self \in Refs, others \in OthersInputs : DoJoin(self, others)
    \/ \E self \in Refs, n \in BatchSizes : DoBatched(self, n)

SpecJoin == InitJoin /\ [][NextJoin]_vars

\* ---------------------------------------------------------------- core.data
\* The arguments of the factory: x an array or a list, label None, a string
\* or a list of strings.
ArrayInput(a) == [kind |-> "array", a |-> a]
ListInput(xs) == [kind |-> "list", xs |-> xs]
NoLabel == [kind |-> "none"]
StrLabel(s) == [kind |-> "str", s |-> s]
ListLabel(ls) == [kind |-> "list", ls |-> ls]

\* isinstance(x, list) and any(isinstance(i, (np.ndarray, list)) for i in x)
HasArrays(x) == x.kind = "list" /\ \E i \in DOMAIN x.xs : x.xs[i].op \in Arrays

\* np.array(x): an array as it is, a list of numbers as the array of them
NpArray(x) == IF x.kind = "array" THEN x.a ELSE [op |-> "array", args |-> x.xs]

\* f"x{i}"
XName(i) == <<"x1", "x2", "x3", "x4", "x5">>[i]

\* The label as the list branch iterates it: the default names, the list's
\* elements or the string's characters.
LabelsFor(x, label) ==
    IF label.kind = "none" THEN [i \in DOMAIN x.xs |-> <<XName(i)>>]
    ELSE IF label.kind = "list" THEN label.ls
    ELSE [i \in DOMAIN label.s |-> <<label.s[i]>>]

\* [PlotDataSet(np.array(d), lb) for d, lb in zip(x, label)]
Datas(x, labels) ==
    [i \in 1..(IF Len(x.xs) < Len(labels) THEN Len(x.xs) ELSE Len(labels)) |->
        PlotDataSet(x.xs[i], Some(labels[i]))]

\* core.data taking a list of labels for the default label.
CoreDataAnyLabel(x, label) ==
    IF HasArrays(x)
    THEN LET datas == Datas(x, LabelsFor(x, label))
         IN [raise |-> IF datas = <<>> THEN "ValueError" ELSE "",
             datas |-> datas, group |-> TRUE]
    ELSE [raise |-> "", group |-> FALSE,
          datas |-> <<PlotDataSet(NpArray(x),
                        IF label.kind = "str" THEN Some(label.s) ELSE None)>>]

\* core.data: the wrappers constructed, whether a group of them is returned,
\* and the error raised.
CoreData(x, label) ==
    IF HasArrays(x)
    THEN LET datas == Datas(x, LabelsFor(x, label))
         IN [raise |-> PlotDataSets(datas).raise, datas |-> datas, group |-> TRUE]
    ELSE IF label.kind = "list"
    THEN [raise |-> "ValueError", datas |-> <<>>, group |-> FALSE]
    ELSE [raise |-> "", group |-> FALSE,
          datas |-> <<PlotDataSet(NpArray(x),
                        IF label.kind = "none" THEN None ELSE Some(label.s))>>]

\* The values tried as arguments.
XInputs ==
    {ArrayInput(Leaf("A")), ArrayInput(Leaf("B")),
     ListInput(<<>>), ListInput(<<Leaf("1"), Leaf("2")>>),
     ListInput(<<Leaf("A"), Leaf("B")>>), ListInput(<<Leaf("A"), Leaf("1")>>),
     ListInput(<<Leaf("A"), Leaf("B"), Leaf("C")>>)}
FactoryLabels ==
    {NoLabel, StrLabel(<<"y">>), StrLabel(<<"y", "z">>),
     ListLabel(<<>>), ListLabel(<<<<"p">>>>), ListLabel(<<<<"p">>, <<"q">>>>),
     ListLabel(<<<<"p">>, <<"q">>, <<"r">>>>)}

\* data(x, label)
DoData(x, label) ==
    LET out == CoreData(x, label)
        n == Len(objs)
    IN /\ CalledOn("data", 0, <<x, label>>)
       /\ IF out.raise # "" THEN Rejects(out.raise)
          ELSE /\ n + Len(out.datas) <= MaxObjs
               /\ objs' = objs \o out.datas
               /\ err' = ""
               /\ UNCHANGED proxies
               /\ IF out.group
                  THEN /\ Len(groups) < MaxGroups
                       /\ groups' = Append(groups,
                             [children |-> [i \in DOMAIN out.datas |-> WrapperRef(n + i)]])
                       /\ ret' = GroupRef(Len(groups) + 1)
                  ELSE /\ ret' = WrapperRef(n + 1)
                       /\ UNCHANGED groups

\* Before the first call of the factory.
InitFactory ==
    /\ objs = <<>>
    /\ groups = <<>>
    /\ proxies = <<>>
    /\ trace = <<>>
    /\ ret = Atom("None")
    /\ err = ""
    /\ steps = 0
    /\ call = [name |-> "", self |-> 0, args |-> <<>>]

NextFactory == \E x \in XInputs, label \in FactoryLabels : DoData(x, label)

SpecFactory == InitFactory /\ [][NextFactory]_vars

\* ------------------------------------------------------------------ Plotter
\* SettingKey of plotter.py, in the order of its PlotSettings.keys()
PlotSetterKeys ==
    <<"title", "xlabel", "ylabel", "alpha", "figsize", "style", "legend_loc">>
PlotSetterKey == {PlotSetterKeys[n] : n \in DOMAIN PlotSetterKeys}

\* A new artist.Plotter, and a new plotter.PlotSetter.
Plotter == [class |-> "Plotter", settings |-> PlotSettings]
PlotSetter == [class |-> "PlotSetter", settings |-> [k \in PlotSetterKey |-> None]]

\* {**old, **v} for two dicts
Merged(old, v) ==
    Dict([k \in DOMAIN old.dict \cup DOMAIN v.dict |->
            IF k \in DOMAIN v.dict THEN v.dict[k] ELSE old.dict[k]])

\* The loop body of Plotter._set without the test that v is not None.
SetOneAnyValue(settings, k, v) ==
    IF k \in DOMAIN settings
    THEN IF v # None /\ IsDict(v[1])
         THEN IF settings[k] # None /\ IsDict(settings[k][1])
              THEN [raise |-> "",
                    settings |-> [settings EXCEPT ![k] = Some(Merged(settings[k][1], v[1]))]]
              ELSE [raise |-> "TypeError", settings |-> settings]
         ELSE [raise |-> "", settings |-> [settings EXCEPT ![k] = v]]
    ELSE [raise |-> "", settings |-> settings]

\* The body of the loop of Plotter._set for the keyword k = v: unpacking a
\* value that is no dict raises TypeError.
SetOne(settings, k, v) ==
    IF k \in DOMAIN settings /\ v # None
    THEN IF IsDict(v[1])
         THEN IF settings[k] # None /\ IsDict(settings[k][1])
              THEN [raise |-> "",
                    settings |-> [settings EXCEPT ![k] = Some(Merged(settings[k][1], v[1]))]]
              ELSE [raise |-> "TypeError", settings |-> settings]
         ELSE [raise |-> "", settings |-> [settings EXCEPT ![k] = v]]
    ELSE [raise |-> "", settings |-> settings]

\* The body of the loop of PlotSetter._set for the keyword k = v
PlotSetterSetOne(settings, k, v) ==
    [raise |-> "",
     settings |-> IF k \in DOMAIN settings /\ v # None
                  THEN [settings EXCEPT ![k] = v] ELSE settings]

\* The body of the loop of set_default for the keyword k = v
SetDefaultOne(settings, k, v) ==
    [raise |-> "",
     settings |-> IF k \in DOMAIN settings /\ settings[k] = None
                  THEN [settings EXCEPT ![k] = v] ELSE settings]

\* for k, v in kwargs.items(), from the n-th keyword on, with the loop body
\* of the method name; the loop ends at the first keyword that raises.
RECURSIVE Loop(_, _, _, _, _)
Loop(class, name, settings, kwargs, n) ==
    IF n > Len(kwargs) THEN [raise |-> "", settings |-> settings]
    ELSE LET k == kwargs[n][1]
             v == kwargs[n][2]
             one == IF name = "set_default" THEN SetDefaultOne(settings, k, v)
                    ELSE IF class = "Plotter" THEN SetOne(settings, k, v)
                    ELSE PlotSetterSetOne(settings, k, v)
         IN IF one.raise # "" THEN one
            ELSE Loop(class, name, one.settings, kwargs, n + 1)

\* Plotter._set and PlotSetter._set
Set(self, kwargs) == Loop(self.class, "_set", self.settings, kwargs, 1)

\* Plotter.set_default and PlotSetter.set_default
SetDefault(self, kwargs) == Loop(self.class, "set_default", self.settings, kwargs, 1)

\* settings.asdict(), in the order of keys()
AsDict(settings) ==
    LET keys == IF DOMAIN settings = SettingKey THEN SettingKeys ELSE PlotSetterKeys
    IN [n \in DOMAIN keys |-> <<keys[n], settings[keys[n]]>>]

\* Plotter.loading and PlotSetter.loading
Loading(self, settings) == Set(self, AsDict(settings))

\* The values tried as arguments.
Margins == {Dict([left |-> 1]), Dict([left |-> 2, right |-> 3])}
SettingKwargs ==
    {<< <<"title", Some(Str("T"))>> >>,
     << <<"title", Some(Str("U"))>>, <<"xlabel", None>> >>,
     << <<"grid", Some(Str("G"))>>, <<"title", None>> >>,
     << <<"grid", Some(Str("G"))>> >>}
    \cup {<< <<"subplots_adjust", Some(d)>> >> : d \in Margins}
    \cup {<< <<"subplots_adjust", Some(d)>>, <<"title", Some(Str("T"))>> >> : d \in Margins}

\* A call on objs[i] that assigns to its settings until it returns or raises.
Assigns(name, i, args, out) ==
    /\ CalledOn(name, i, args)
    /\ objs' = [objs EXCEPT ![i].settings = out.settings]
    /\ err' = out.raise
    /\ ret' = IF out.raise = "" THEN WrapperRef(i) ELSE ret
    /\ UNCHANGED <<groups, proxies>>

\* self._set(**kwargs), self.set_default(**kwargs), self.loading(settings)
DoSet(i, kwargs) == Assigns("_set", i, kwargs, Set(objs[i], kwargs))
DoSetDefault(i, kwargs) == Assigns("set_default", i, kwargs, SetDefault(objs[i], kwargs))
DoLoading(i, j) == Assigns("loading", i, <<j>>, Loading(objs[i], objs[j].settings))

\* Two plotters and an axes wrapper, as constructed.
InitSettings ==
    /\ objs = <<Plotter, Plotter, PlotSetter>>
    /\ groups = <<>>
    /\ proxies = <<>>
    /\ trace = <<>>
    /\ ret = Atom("None")
    /\ err = ""
    /\ steps = 0
    /\ call = [name |-> "", self |-> 0, args |-> <<>>]

NextSettings ==
    \/ \E i \in DOMAIN objs, kwargs \in SettingKwargs : DoSet(i, kwargs)
    \/ \E i \in DOMAIN objs, kwargs \in SettingKwargs : DoSetDefault(i, kwargs)
    \/ \E i \in DOMAIN objs, j \in DOMAIN objs : DoLoading(i, j)

SpecSettings == InitSettings /\ [][NextSettings]_vars

\* ------------------------------------------------------------------ artists
\* A string made of a fixed text and a value: self.label + " quantiles", and
\* the xlabel with the lines of statistics that Histogram.paint adds to it.
Text(s, of) == [str |-> s, of |-> of]
WithStats(xlabel, label) == [str |-> "\n", of |-> label, after |-> xlabel]

\* A call of the plotting library on a surface: the axes objs[on], or the
\* axes of the figure the call created when on = 0.
Event(op, on) == [op |-> op, on |-> on]

\* Histogram, QQPlot and KSPlot with the fields of Artist; fails says that
\* the plotting library raises in the first drawing call.
Artist(kind, x, label, on, settings, dist, stats, fails) ==
    [kind |-> kind, data |-> x, label |-> label, on |-> on,
     settings |-> settings, dist |-> dist, stats |-> stats, fails |-> fails]

\* Artist.prepare looking at on before data and label.
PrepareOnFirst(self) ==
    IF self.on = None THEN [raise |-> "ArtistPrepareError: 'on' not set yet."]
    ELSE IF self.data = None THEN [raise |-> "ArtistPrepareError: 'data' not set yet."]
    ELSE IF self.label = None THEN [raise |-> "ArtistPrepareError: 'label' not set yet."]
    ELSE [raise |-> "", on |-> self.on[1]]

\* Artist.prepare
Prepare(self) ==
    IF self.data = None THEN [raise |-> "ArtistPrepareError: 'data' not set yet."]
    ELSE IF self.label = None THEN [raise |-> "ArtistPrepareError: 'label' not set yet."]
    ELSE IF self.on = None THEN [raise |-> "ArtistPrepareError: 'on' not set yet."]
    ELSE [raise |-> "", on |-> self.on[1]]

\* The distribution names that QQPlot.__plot and KSPlot.__plot match.
DistStr == {"normal", "exponential"}

\* The keywords of the first ax.set_default(...) of paint, by kind of artist
\* (a histogram of densities of a single wrapper).
Defaults(self) ==
    IF self.kind = "Histogram"
    THEN << <<"title", Some(Str("Histogram"))>>, <<"alpha", Some(Str("1.0"))>>,
            <<"xlabel", Some(Str("value"))>>, <<"ylabel", Some(Str("density"))>> >>
    ELSE IF self.kind = "QQPlot"
    THEN << <<"title", Some(Str("Quantile-Quantile Plot"))>>,
            <<"ylabel", Some(Text(" quantiles", self.label[1]))>> >>
    ELSE << <<"title", Some(Str("Kolmogorov-Smirnov Plot"))>>,
            <<"xlabel", Some(Str("value"))>>,
            <<"ylabel", Some(Str("cummulative probability"))>> >>

\* ax.set_default(**kwargs) assigning like _set does.
FillForced(ax, kwargs) == Loop(ax.class, "_set", ax.settings, kwargs, 1).settings

\* ax.set_default(**kwargs): the settings of ax after it
Fill(ax, kwargs) == SetDefault(ax, kwargs).settings

\* ax.set_default(...).loading(self.settings) at the head of paint
Styled(self, ax) ==
    Loading([ax EXCEPT !.settings = Fill(ax, Defaults(self))], self.settings)

\* Histogram.paint after prepare, on the axes ax = objs[on]
PaintHistogram(self, ax, on) ==
    LET styled == Styled(self, ax)
    IN IF styled.raise # ""
       THEN [raise |-> styled.raise, settings |-> styled.settings, events |-> <<>>]
       ELSE IF self.fails
       THEN [raise |-> "ExternalError", settings |-> styled.settings,
             events |-> <<Event("hist", on)>>]
       ELSE [raise |-> "",
             events |-> <<Event("hist", on), Event("plot", on)>>,
             settings |->
                IF self.stats
                THEN Set([ax EXCEPT !.settings = styled.settings],
                         << <<"xlabel",
                              Some(WithStats(styled.settings["xlabel"][1],
                                             self.label[1]))>> >>).settings
                ELSE styled.settings]

\* QQPlot.paint after prepare: a name that no case matches leaves q unbound,
\* and the next statement raises UnboundLocalError.
PaintQQPlot(self, ax, on) ==
    LET styled == Styled(self, ax)
        named == [ax EXCEPT !.settings = styled.settings]
    IN IF styled.raise # ""
       THEN [raise |-> styled.raise, settings |-> styled.settings, events |-> <<>>]
       ELSE IF self.dist.kind = "str"
       THEN LET out == Fill(named, << <<"xlabel",
                          Some(Text(" theoretical quantiles", self.dist.name))>> >>)
            IN IF self.dist.name \in DistStr
               THEN [raise |-> "", settings |-> out,
                     events |-> <<Event("scatter", on), Event("plot", on)>>]
               ELSE [raise |-> "UnboundLocalError", settings |-> out, events |-> <<>>]
       ELSE [raise |-> "",
             settings |-> Fill(named, << <<"xlabel",
                                Some(Str("sample theoretical quantiles"))>> >>),
             events |-> <<Event("scatter", on), Event("plot", on)>>]

\* KSPlot.paint after prepare: a name that no case matches leaves q1 unbound,
\* which the second ax.ax.plot reads after the first has drawn.
PaintKSPlot(self, ax, on) ==
    LET styled == Styled(self, ax)
    IN IF styled.raise # ""
       THEN [raise |-> styled.raise, settings |-> styled.settings, events |-> <<>>]
       ELSE IF self.dist.kind = "str" /\ self.dist.name \notin DistStr
       THEN [raise |-> "UnboundLocalError", settings |-> styled.settings,
             events |-> <<Event("plot", on)>>]
       ELSE [raise |-> "", settings |-> styled.settings,
             events |-> <<Event("plot", on), Event("plot", on)>>]

\* self.paint() with the axes ax for self.on: the error raised, the settings
\* of the axes and the drawing calls made.
Paint(self, ax, on) ==
    IF self.kind = "Histogram" THEN PaintHistogram(self, ax, on)
    ELSE IF self.kind = "QQPlot" THEN PaintQQPlot(self, ax, on)
    ELSE PaintKSPlot(self, ax, on)

\* AxesWrapper(x), as FigWrapper.__enter__ constructs it
AxesWrapper == PlotSetter

\* FigWrapper.__enter__ when active: the calls made on the plotting library
Enter == <<Event("style.use", 0), Event("subplots", 0)>>

\* FigWrapper.__exit__ when active, for a figure with one axes
Exit ==
    <<Event("set_title", 0), Event("set_size_inches", 0), Event("ax.exit", 0),
      Event("show", 0), Event("close", 0), Event("style.use", 0)>>

\* _use_plotter without the with statement: __exit__ is called only when
\* paint returns.
UsePlotterNoExit(self, artist, axes) ==
    IF artist.on = None
    THEN LET out == Paint([artist EXCEPT !.on = Some(0)], AxesWrapper, 0)
         IN [raise |-> out.raise, settings |-> axes.settings,
             events |-> Enter \o out.events
                          \o (IF out.raise = "" THEN Exit ELSE <<>>)]
    ELSE Paint(artist, axes, artist.on[1])

\* PlotDataSet._use_plotter for the artist customized from self with the
\* call's parameters; axes is the wrapper given for on, if one is:
\* the error raised, the settings of the given axes, and the calls made on the
\* plotting library.
UsePlotter(self, artist, axes) ==
    IF artist.on = None
    THEN LET out == Paint([artist EXCEPT !.on = Some(0)], AxesWrapper, 0)
         IN [raise |-> out.raise, settings |-> axes.settings,
             events |-> Enter \o out.events \o Exit]
    ELSE Paint(artist, axes, artist.on[1])

\* The values tried as arguments.
NamedDist(name) == [kind |-> "str", name |-> name]
Sample == [kind |-> "sample"]
PlotKwargs ==
    {<< <<"title", Some(Str("T"))>> >>, << <<"xlabel", Some(Str("U"))>> >>}

\* The artists a dataset method customizes from the wrapper d for the axes
\* on: hist with and without stats, qqplot by distribution.
Customized(d, on) ==
    {Artist("Histogram", Some(d.data), Some(d.label), on, d.settings,
            Sample, st, fl) : st \in BOOLEAN, fl \in BOOLEAN}
    \cup {Artist("QQPlot", Some(d.data), Some(d.label), on, d.settings,
                 dist, FALSE, FALSE) :
            dist \in {NamedDist("normal"), NamedDist("gamma"), Sample}}

\* The artists constructed directly, some without data, label or axes.
Artists(d, on) ==
    {Artist("KSPlot", Some(d.data), Some(d.label), Some(on), d.settings,
            dist, FALSE, FALSE) :
        dist \in {NamedDist("exponential"), NamedDist("gamma")}}
    \cup {Artist("Histogram", dt, lb, o, d.settings, Sample, TRUE, FALSE) :
            dt \in {None, Some(d.data)}, lb \in {None, Some(d.label)},
            o \in {None, Some(on)}}

\* A call on the wrapper or artist that draws: the calls made on the plotting
\* library are kept in trace.
Draws(name, i, args, on, out) ==
    /\ steps < MaxSteps
    /\ steps' = steps + 1
    /\ call' = [name |-> name, self |-> i, args |-> args]
    /\ trace' = out.events
    /\ err' = out.raise
    /\ objs' = IF on = 0 THEN objs ELSE [objs EXCEPT ![on].settings = out.settings]
    /\ UNCHANGED <<groups, proxies, ret>>

\* artist.paint() for an artist made for the axes objs[on]
DoPaint(artist, on) ==
    LET ready == Prepare(artist)
    IN Draws("paint", 0, <<artist>>, IF ready.raise = "" THEN on ELSE 0,
             IF ready.raise # ""
             THEN [raise |-> ready.raise, events |-> <<>>]
             ELSE Paint(artist, objs[ready.on], ready.on))

\* d.hist(..., on=on), d.qqplot(..., on=on) for the wrapper d = objs[i]
DoUsePlotter(i, artist) ==
    LET on == IF artist.on = None THEN 0 ELSE artist.on[1]
    IN Draws(IF artist.kind = "Histogram" THEN "hist" ELSE "qqplot", i,
             <<artist>>, on,
             UsePlotter(objs[i], artist, IF on = 0 THEN AxesWrapper ELSE objs[on]))

\* A wrapper from the factory and an axes wrapper of a figure of the caller.
InitPlot ==
    /\ objs = << [class |-> "Plotter", settings |-> PlotSettings,
                  data |-> Leaf("A"), label |-> "x1"],
                 AxesWrapper >>
    /\ groups = <<>>
    /\ proxies = <<>>
    /\ trace = <<>>
    /\ ret = Atom("None")
    /\ err = ""
    /\ steps = 0
    /\ call = [name |-> "", self |-> 0, args |-> <<>>]

NextPlot ==
    \/ \E i \in DOMAIN objs, kwargs \in PlotKwargs : DoSet(i, kwargs)
    \/ \E artist \in Artists(objs[1], 2) : DoPaint(artist, 2)
    \/ \E on \in {None, Some(2)} : \E artist \in Customized(objs[1], on) :
          DoUsePlotter(1, artist)

SpecPlot == InitPlot /\ [][NextPlot]_vars

\* ------------------------------------------------------------------ reading
\* A formula read back with ordinary precedence and associativity:
\*     sum     ::= ["-"] product (("+" | "-") product)*     left to right
\*     product ::= power (("*" | "/") power)*               left to right
\*     power   ::= atom ["**" power]                        right to left
\*     atom    ::= name | "(" sum ")" | f "(" sum ")" | "rolling" "(" sum ", " n ")"
\* The result is the term of numpy calls the formula denotes, over names.
Failed == [ok |-> FALSE, t |-> Leaf("?"), p |-> 0]
Read(t, p) == [ok |-> TRUE, t |-> t, p |-> p]
At(s, p) == IF p >= 1 /\ p <= Len(s) THEN s[p] ELSE ""

FuncOf == [log |-> "log", exp |-> "exp", csum |-> "cumsum",
           mean |-> "nanmean", std |-> "nanstd"]
SignOf == "+" :> "add" @@ "-" :> "subtract" @@ "*" :> "multiply"
          @@ "/" :> "true_divide" @@ "**" :> "power"
Reserved == {"", "(", ")", ", ", "rolling", "{0}"} \cup DOMAIN FuncOf \cup DOMAIN SignOf

RECURSIVE ParseSum(_, _), ParseSumRest(_, _), ParseProduct(_, _),
          ParseProductRest(_, _), ParsePower(_, _), ParseAtom(_, _)

ParseAtom(s, p) ==
    LET tok == At(s, p) IN
    IF tok = "("
    THEN LET r == ParseSum(s, p + 1) IN
         IF r.ok /\ At(s, r.p) = ")" THEN Read(r.t, r.p + 1) ELSE Failed
    ELSE IF tok \in DOMAIN FuncOf
    THEN LET r == IF At(s, p + 1) = "(" THEN ParseSum(s, p + 2) ELSE Failed IN
         IF r.ok /\ At(s, r.p) = ")"
         THEN Read(Ap1(FuncOf[tok], r.t), r.p + 1) ELSE Failed
    ELSE IF tok = "rolling"
    THEN LET r == IF At(s, p + 1) = "(" THEN ParseSum(s, p + 2) ELSE Failed IN
         IF r.ok /\ At(s, r.p) = ", " /\ At(s, r.p + 1) \in Windows
                 /\ At(s, r.p + 2) = ")"
         THEN Read(Ap2("rolling_mean", r.t, Leaf(At(s, r.p + 1))), r.p + 3)
         ELSE Failed
    ELSE IF tok \in Reserved THEN Failed
    ELSE Read(Leaf(tok), p + 1)

ParsePower(s, p) ==
    LET a == ParseAtom(s, p) IN
    IF a.ok /\ At(s, a.p) = "**"
    THEN LET r == ParsePower(s, a.p + 1) IN
         IF r.ok THEN Read(Ap2("power", a.t, r.t), r.p) ELSE Failed
    ELSE a

\* left is the product read so far, up to position left.p
ParseProductRest(s, left) ==
    IF left.ok /\ At(s, left.p) \in {"*", "/"}
    THEN LET r == ParsePower(s, left.p + 1) IN
         IF r.ok
         THEN ParseProductRest(s, Read(Ap2(SignOf[At(s, left.p)], left.t, r.t), r.p))
         ELSE Failed
    ELSE left

ParseProduct(s, p) == ParseProductRest(s, ParsePower(s, p))

ParseSumRest(s, left) ==
    IF left.ok /\ At(s, left.p) \in {"+", "-"}
    THEN LET r == ParseProduct(s, left.p + 1) IN
         IF r.ok
         THEN ParseSumRest(s, Read(Ap2(SignOf[At(s, left.p)], left.t, r.t), r.p))
         ELSE Failed
    ELSE left

ParseSum(s, p) ==
    IF At(s, p) = "-"
    THEN LET r == ParseProduct(s, p + 1) IN
         IF r.ok THEN ParseSumRest(s, Read(Ap1("negative", r.t), r.p)) ELSE Failed
    ELSE ParseSumRest(s, ParseProduct(s, p))

\* The whole string read as one formula.
Parse(s) ==
    LET r == ParseSum(s, 1) IN
    IF r.ok /\ r.p = Len(s) + 1 THEN r ELSE Failed

\* Terms up to the associativity of + and *: x+(y+z) = (x+y)+z and
\* x+(y-z) = (x+y)-z, x*(y*z) = (x*y)*z and x*(y/z) = (x*y)/z.
RECURSIVE Norm(_)
Norm(t) ==
    IF Len(t.args) = 0 THEN t
    ELSE IF Len(t.args) = 1 THEN Ap1(t.op, Norm(t.args[1]))
    ELSE LET l == Norm(t.args[1])
             r == Norm(t.args[2])
         IN IF t.op = "add" /\ r.op \in {"add", "subtract"} /\ Len(r.args) = 2
            THEN Ap2(r.op, Norm(Ap2("add", l, r.args[1])), r.args[2])
            ELSE IF t.op = "multiply" /\ r.op \in {"multiply", "true_divide"}
                    /\ Len(r.args) = 2
            THEN Ap2(r.op, Norm(Ap2("multiply", l, r.args[1])), r.args[2])
            ELSE Ap2(t.op, l, r)

\* The factory's pairing of arrays and labels in Init.
LabelOf == [A |-> "x1", B |-> "b", C |-> "c"]

\* A term of arrays as the expression over the labels its arrays were given.
RECURSIVE Named(_)
Named(t) ==
    IF Len(t.args) = 0
    THEN (IF t.op \in Arrays THEN Leaf(LabelOf[t.op]) ELSE t)
    ELSE [op |-> t.op, args |-> [k \in DOMAIN t.args |-> Named(t.args[k])]]

\* The rendered formula of a wrapper denotes the expression that made its data.
Denotes(o) ==
    LET r == Parse(FormattedLabel(o, 0)) IN
    r.ok /\ Norm(r.t) = Norm(Named(o.data))

\* ------------------------------------------------------------------ claims
\* C1: the rendered formula of every wrapper built by chained operations,
\* read with ordinary precedence and associativity, denotes the expression
\* whose operations produced the wrapper's data (up to associativity of + and *).
C1_FormulaDenotesData == \A i \in Ids : Denotes(objs[i])

\* The label the factory gave the wrapper of array X, as a string.
Lab(X) == <<LabelOf[X]>>
Formula(i) == FormattedLabel(objs[i], 0)

\* C2: for distinct base wrappers a, b, c: (a+b)*c renders "(a+b)*c", a+b+c
\* renders "a+b+c", a-b-c renders "a-b-c", and a/(b/c) and (a/b)/c render as
\* the different strings "a/(b/c)" and "a/b/c".
C2_Parenthesization ==
    \A i \in Ids : \A X \in Arrays, Y \in Arrays, Z \in Arrays :
        LET a == Leaf(X) b == Leaf(Y) c == Leaf(Z) d == objs[i].data IN
        (X # Y /\ Y # Z /\ X # Z) =>
          /\ d = Ap2("multiply", Ap2("add", a, b), c)
                => Formula(i) = <<"(">> \o Lab(X) \o <<"+">> \o Lab(Y)
                                 \o <<")", "*">> \o Lab(Z)
          /\ d = Ap2("add", Ap2("add", a, b), c)
                => Formula(i) = Lab(X) \o <<"+">> \o Lab(Y) \o <<"+">> \o Lab(Z)
          /\ d = Ap2("subtract", Ap2("subtract", a, b), c)
                => Formula(i) = Lab(X) \o <<"-">> \o Lab(Y) \o <<"-">> \o Lab(Z)
          /\ d = Ap2("true_divide", a, Ap2("true_divide", b, c))
                => Formula(i) = Lab(X) \o <<"/", "(">> \o Lab(Y) \o <<"/">>
                                 \o Lab(Z) \o <<")">>
          /\ d = Ap2("true_divide", Ap2("true_divide", a, b), c)
                => Formula(i) = Lab(X) \o <<"/">> \o Lab(Y) \o <<"/">> \o Lab(Z)

\* a / (b / c) has been built.
C2_Witness ==
    \E i \in Ids :
        /\ objs[i].data = Ap2("true_divide", Leaf("A"),
                              Ap2("true_divide", Leaf("B"), Leaf("C")))
        /\ Formula(i) = <<"x1", "/", "(", "b", "/", "c", ")">>

\* C3 (as the code has it): for a wrapper d with no transform history, the
\* formula of -d is "-" followed by d.label, and the formula of -(-d) is
\* "-(-" d.label ")": the inner negation keeps its parentheses.
C3_Negation ==
    \A i \in Ids : \A X \in Arrays :
        /\ objs[i].data = Ap1("negative", Leaf(X))
              => Formula(i) = <<"-">> \o Lab(X)
        /\ objs[i].data = Ap1("negative", Ap1("negative", Leaf(X)))
              => Formula(i) = <<"-", "(", "-">> \o Lab(X) \o <<")">>

\* -(-d) has been built.
C3_Witness ==
    \E i \in Ids : objs[i].data = Ap1("negative", Ap1("negative", Leaf("A")))

\* C3 as claimed: -(-d) is rendered as a single negation of d.label.
C3_Claimed ==
    \A i \in Ids : \A X \in Arrays :
        /\ objs[i].data = Ap1("negative", Leaf(X))
              => Formula(i) = <<"-">> \o Lab(X)
        /\ objs[i].data = Ap1("negative", Ap1("negative", Leaf(X)))
              => Formula(i) = <<"-">> \o Lab(X)

\* C4: after d.opclear() the rendered formula equals d.label exactly, whatever
\* the label, and d.data is d.original_data.
C4_OpclearRendersLabel ==
    [][\A i \in Ids :
          DoOpclear(i) =>
            /\ FormattedLabel(objs'[i], 0) = objs'[i].label
            /\ objs'[i].data = objs'[i].original_data]_vars

\* C5: after d.opclear_records_only() on a wrapper with a transform history,
\* data is unchanged, the rendered formula equals the label, original_data is
\* the current data, and a following opclear() keeps data at that value.
C5_RecordsOnlyKeepsData ==
    [][\A i \in Ids :
          (objs[i].fmt_ # <<"{0}">> /\ DoOpclearRecordsOnly(i)) =>
            /\ objs'[i].data = objs[i].data
            /\ FormattedLabel(objs'[i], 0) = objs'[i].label
            /\ objs'[i].original_data = objs'[i].data
            /\ Opclear(objs'[i]).data = objs[i].data]_vars

\* The operator of a numpy function.
OpOf(func) == CHOOSE op \in BinOps : op.func = func
IsNumber(t) == Len(t.args) = 0 /\ t.op \in Scalars

\* The wrapper that the chain of operations recorded in the term t produces
\* when the wrapper of each array X carries the label lab[X] from the start.
RECURSIVE Rebuild(_, _)
Rebuild(t, lab) ==
    IF Len(t.args) = 0 THEN data(t, Some(lab[t.op]))
    ELSE IF t.op = "negative" THEN Neg(Rebuild(t.args[1], lab))
    ELSE IF t.op = "log" THEN FuncOp(Rebuild(t.args[1], lab), "log", "log")
    ELSE IF t.op = "exp" THEN FuncOp(Rebuild(t.args[1], lab), "exp", "exp")
    ELSE IF t.op = "cumsum" THEN FuncOp(Rebuild(t.args[1], lab), "csum", "cumsum")
    ELSE IF t.op = "rolling_mean"
    THEN Rolling(Rebuild(t.args[1], lab), t.args[2].op)
    ELSE IF t.op = "subtract" /\ t.args[2].op = "nanmean"
    THEN Demean(Rebuild(t.args[1], lab))
    ELSE IF t.op = "true_divide" /\ t.args[2].op = "nanstd"
    THEN Zscore(Rebuild(t.args[2].args[1], lab))
    ELSE IF IsNumber(t.args[1])
    THEN BinaryReverse(Rebuild(t.args[2], lab), NumOperand(t.args[1].op),
                       OpOf(t.op)).obj
    ELSE IF IsNumber(t.args[2])
    THEN BinaryForward(Rebuild(t.args[1], lab), NumOperand(t.args[2].op),
                       OpOf(t.op)).obj
    ELSE BinaryForward(Rebuild(t.args[1], lab),
                       SetOperand(Rebuild(t.args[2], lab)), OpOf(t.op)).obj

\* The tokens of the labels given to set_label: no factory label has them.
RelabelTokens == {"n", "p", "m"}

\* No operand of the wrapper's chain had been relabelled when it was used.
Clean(o) == \A k \in DOMAIN o.fmt_ : o.fmt_[k] \notin RelabelTokens

\* C6: after set_label(new) on a wrapper built by any chain, its rendered
\* formula is the one the same chain produces when the wrapper carries the
\* label new from the start.
C6_RelabelAsFromStart ==
    \A i \in Ids :
        LET o == objs[i]
            lab == [X \in Arrays |->
                       IF Leaf(X) = o.original_data THEN o.label ELSE Lab(X)]
        IN Clean(o) => FormattedLabel(o, 0) = FormattedLabel(Rebuild(o.data, lab), 0)

\* The function-style operations, by the numpy function, and their names in
\* a formula.
FuncHeads == {"log", "exp", "cumsum", "rolling_mean"}
NameOf == [log |-> "log", exp |-> "exp", cumsum |-> "csum", rolling_mean |-> "rolling"]
FuncText(t, prior) ==
    IF t.op = "rolling_mean"
    THEN <<"rolling", "(">> \o prior \o <<", ", t.args[2].op, ")">>
    ELSE <<NameOf[t.op], "(">> \o prior \o <<")">>
IsBinary(t) ==
    /\ Len(t.args) = 2
    /\ t.op \in {op.func : op \in BinOps}
    /\ t.args[2].op \notin {"nanmean", "nanstd"}
StartsWith(s, pre) == Len(s) >= Len(pre) /\ SubSeq(s, 1, Len(pre)) = pre
EndsWith(s, suf) ==
    Len(s) >= Len(suf) /\ SubSeq(s, Len(s) - Len(suf) + 1, Len(s)) = suf

Transforms == {"__neg__", "__binary_operation", "log", "exp", "cumsum",
               "rolling", "demean", "zscore"}

\* C8: every transform returns a new instance that carries the receiver's
\* original_data and label and leaves every existing instance as it was; only
\* opclear and opclear_records_only change the data or the template of an
\* existing instance.
C8_TransformsLeaveReceiver ==
    [][/\ (call'.name \in Transforms /\ err' = "") =>
            LET i == call'.self IN
            /\ Len(objs') = Len(objs) + 1
            /\ objs'[Len(objs')].original_data = objs[i].original_data
            /\ objs'[Len(objs')].label = objs[i].label
            /\ \A k \in Ids : objs'[k] = objs[k]
       /\ \A k \in Ids :
            (objs'[k].data # objs[k].data \/ objs'[k].fmt_ # objs[k].fmt_)
              => /\ call'.self = k
                 /\ call'.name \in {"opclear", "opclear_records_only"}]_vars

\* A transform has been applied to a wrapper that was itself transformed,
\* relabelled and given a setting.
C8_Witness ==
    \E i \in Ids, k \in Ids :
        /\ i < k
        /\ objs[i].data # objs[i].original_data
        /\ objs[k].data = Ap1("log", objs[i].data)
        /\ objs[k].original_data = objs[i].original_data
        /\ objs[k].label = <<"n">>

\* C9: a binary operation, forward or reversed, with an operand that is
\* neither a number nor a wrapper raises ValueError, constructs no wrapper
\* and leaves the receiver unchanged.
C9_UnsupportedOperandRejected ==
    [][\A i \in Ids : BadOperand(i) => (err' = "ValueError" /\ objs' = objs)]_vars

\* The proxy proxies[j] has a call reducer and no reflex key.
Reducing(j) == proxies[j].call_reducer # None /\ proxies[j].call_reflex = None

\* No argument of the last call is itself a proxy.
PlainArguments ==
    /\ \A k \in DOMAIN call.args : ~IsMultiObject(call.args[k])
    /\ \A k \in DOMAIN call.kwargs : ~IsMultiObject(call.kwargs[k])

\* The per-item results of calling each of items with the last call's arguments.
Results(items) ==
    [i \in DOMAIN items |-> Invoke(items[i], call.args, call.kwargs)]

\* The attribute values of items under name.
Attributes(items, name) == [i \in DOMAIN items |-> Getattr(items[i], name)]

\* C10: a call with arguments A of a proxy over x_0..x_{N-1} that has the
\* reducer R calls each item once, in list order, and returns
\* R([x_0(A), ..., x_{N-1}(A)]); an attribute read on the proxy gives a proxy
\* over the items' attributes with the same reducer, so that calling a method
\* read from the proxy returns R([x_i.method(A) for i in 0..N-1]).
C10_CallReduces ==
    /\ (call.name = "__call__" /\ Reducing(call.self) /\ PlainArguments) =>
          LET self == proxies[call.self]
              R == self.call_reducer[1]
          IN /\ trace = Results(self.items)
             /\ ret = Invoke(R, <<List(Results(self.items))>>, NoKwargs)
             /\ \A j \in DOMAIN proxies, name \in Names :
                   ( /\ self.items = Attributes(proxies[j].items, name)
                     /\ proxies[j].call_reducer = self.call_reducer )
                     => ret = Invoke(R,
                                     <<List(Results(Attributes(proxies[j].items,
                                                               name)))>>,
                                     NoKwargs)
    /\ (call.name = "__getattr__" /\ Reducing(call.self)) =>
          LET self == proxies[call.self]
              read == proxies[ret.ref]
          IN /\ ret.ref = Len(proxies)
             /\ read.items = Attributes(self.items, call.args[1].atom)
             /\ read.call_reducer = self.call_reducer
             /\ read.call_reflex = None

\* A method read from a proxy over three items with a reducer has been
\* called with arguments.
C10_Witness ==
    /\ call.name = "__call__"
    /\ Reducing(call.self)
    /\ PlainArguments
    /\ call.args # <<>>
    /\ Len(proxies[call.self].items) = 3
    /\ Len(trace) = 3
    /\ \E j \in DOMAIN proxies :
          /\ j < call.self
          /\ proxies[j].items = <<Atom("y"), Atom("x"), Atom("x")>>
          /\ Reducing(j)
          /\ proxies[call.self].items = Attributes(proxies[j].items, "method")

\* C11: in a call of a proxy with the reflex key k, the first item gets the
\* caller's arguments and nothing under k of the proxy's making, and every
\* later item gets, under the keyword k, the value the item before it
\* returned in this call, whatever the caller passed under k.
C11_ReflexChain ==
    (call.name = "__call__" /\ proxies[call.self].call_reflex # None) =>
        LET k == proxies[call.self].call_reflex[1]
            given == DOMAIN call.kwargs
        IN \A i \in DOMAIN trace :
              /\ trace[i].fn = proxies[call.self].items[i]
              /\ trace[i].args = [a \in DOMAIN call.args |-> Unzip(call.args[a], i)]
              /\ DOMAIN trace[i].kwargs = IF i = 1 THEN given ELSE given \cup {k}
              /\ \A key \in DOMAIN trace[i].kwargs :
                    trace[i].kwargs[key] =
                        IF i > 1 /\ key = k THEN trace[i - 1]
                        ELSE Unzip(call.kwargs[key], i)

\* A proxy over three items with the reflex key k has been called by a
\* caller that passes a keyword k of its own.
C11_Witness ==
    /\ call.name = "__call__"
    /\ proxies[call.self].call_reflex = Some("k")
    /\ DOMAIN call.kwargs = {"k"}
    /\ Len(trace) = 3
    /\ trace[3].kwargs["k"] = trace[2]
    /\ trace[1].kwargs["k"] = Atom("c")

\* C12: an attribute read returns a new proxy over the items' attribute
\* values with the receiver's call reducer and reflex key; a call of a proxy
\* without a call reducer returns a new proxy over the items' results, in
\* order, with the receiver's reflex key and no call reducer.
C12_PolicyPropagation ==
    /\ call.name = "__getattr__" =>
          /\ ret = Ref(Len(proxies))
          /\ call.self < Len(proxies)
          /\ proxies[Len(proxies)] =
                [items |-> Attributes(proxies[call.self].items, call.args[1].atom),
                 call_reducer |-> proxies[call.self].call_reducer,
                 call_reflex |-> proxies[call.self].call_reflex]
    /\ ( /\ call.name = "__call__"
         /\ proxies[call.self].call_reducer = None
         /\ DOMAIN ret # {"raise"} ) =>
          /\ ret = Ref(Len(proxies))
          /\ call.self < Len(proxies)
          /\ Len(trace) = Len(proxies[call.self].items)
          /\ \A i \in DOMAIN trace : trace[i].fn = proxies[call.self].items[i]
          /\ proxies[Len(proxies)] =
                [items |-> trace,
                 call_reducer |-> None,
                 call_reflex |-> proxies[call.self].call_reflex]

\* A method has been read from a proxy over three items with a reflex key
\* and no reducer, and the proxy that the read returned has been called.
C12_Witness ==
    /\ call.name = "__call__"
    /\ Len(proxies) = 3
    /\ call.self = 2
    /\ Len(proxies[1].items) = 3
    /\ proxies[1].call_reflex = Some("k")
    /\ proxies[2] = MultiObject(Attributes(proxies[1].items, "method"),
                                None, Some("k"))
    /\ ret = Ref(3)
    /\ Len(proxies[3].items) = 3

\* The arguments of the last call, positional and keyword, as one set.
GivenArguments ==
    {call.args[a] : a \in DOMAIN call.args}
        \cup {call.kwargs[key] : key \in DOMAIN call.kwargs}

\* The items of the proxy that the argument a is, when it is one.
Elements(a) == proxies[a.ref].items

\* The argument a as the call on item i is to receive it.
Lined(a, i) == IF IsMultiObject(a) THEN Elements(a)[i] ELSE a

\* The keywords that the last call's receiver fills in by itself.
ReflexKeys ==
    IF proxies[call.self].call_reflex = None THEN {}
    ELSE {proxies[call.self].call_reflex[1]}

\* C13: in a call of a proxy over N items, when every argument that is a
\* proxy has at least N items, item i receives the i-th element of every
\* such argument and every other argument unchanged, except that the items
\* after the first receive the reflex key's value from the proxy; when an
\* argument proxy has fewer than N items the call raises IndexError at the
\* first item that has no element, after the calls on the items before it.
C13_Unzip ==
    call.name = "__call__" =>
        LET N == Len(proxies[call.self].items)
            short == {Len(Elements(a)) : a \in {g \in GivenArguments :
                                                 IsMultiObject(g)}}
            reach == IF \E n \in short : n < N
                     THEN CHOOSE n \in short : \A m \in short : n <= m
                     ELSE N
        IN /\ Len(trace) = reach
           /\ (reach < N) = (ret = [raise |-> "IndexError"])
           /\ \A i \in 1..reach :
                 /\ DOMAIN trace[i].args = DOMAIN call.args
                 /\ \A a \in DOMAIN call.args :
                       trace[i].args[a] = Lined(call.args[a], i)
                 /\ \A key \in DOMAIN call.kwargs :
                       (i = 1 \/ key \notin ReflexKeys) =>
                          trace[i].kwargs[key] = Lined(call.kwargs[key], i)

\* A proxy over three items has been called with another proxy over three
\* items as a positional and as a keyword argument, and with an argument
\* that is no proxy.
C13_Witness ==
    /\ call.name = "__call__"
    /\ Len(trace) = 3
    /\ Len(call.args) = 2
    /\ ~IsMultiObject(call.args[1])
    /\ IsMultiObject(call.args[2])
    /\ call.args[2].ref # call.self
    /\ IsMultiObject(call.kwargs["w"])
    /\ trace[1].args[2] # trace[2].args[2]
    /\ trace[3].kwargs["w"] = Elements(call.kwargs["w"])[3]

\* C13 as stated: for every i in 0..N-1 item i is called with the i-th
\* element of every argument that is a proxy and with every other argument
\* unchanged.
C13_Claimed ==
    call.name = "__call__" =>
        /\ Len(trace) = Len(proxies[call.self].items)
        /\ \A i \in DOMAIN trace :
              /\ \A a \in DOMAIN call.args :
                    /\ IsMultiObject(call.args[a]) =>
                          /\ i <= Len(Elements(call.args[a]))
                          /\ trace[i].args[a] = Elements(call.args[a])[i]
                    /\ ~IsMultiObject(call.args[a]) =>
                          trace[i].args[a] = call.args[a]
              /\ \A key \in DOMAIN call.kwargs :
                    /\ IsMultiObject(call.kwargs[key]) =>
                          /\ i <= Len(Elements(call.kwargs[key]))
                          /\ trace[i].kwargs[key] = Elements(call.kwargs[key])[i]
                    /\ ~IsMultiObject(call.kwargs[key]) =>
                          trace[i].kwargs[key] = call.kwargs[key]

\* Every element of the list x is None.
AllNone(x) == \A i \in DOMAIN x : IsNone(x[i])

\* The list that the last operation handed to cleaner: the argument of a
\* call of cleaner, the results of the items of a call of a proxy.
Cleaned == IF call.name = "cleaner" THEN call.args[1].list ELSE trace

\* C14: cleaner(results), called on its own or as the call reducer of a
\* proxy, returns None when every element of results is None, and otherwise
\* a proxy over all the results in order, the None entries included, whose
\* call reducer is cleaner.
C14_Cleaner ==
    ( \/ call.name = "cleaner"
      \/ /\ call.name = "__call__"
         /\ proxies[call.self].call_reducer = Some(Atom("cleaner"))
         /\ DOMAIN ret # {"raise"}
         /\ Len(trace) = Len(proxies[call.self].items) ) =>
        IF AllNone(Cleaned)
        THEN IsNone(ret)
        ELSE /\ ret = Ref(Len(proxies))
             /\ proxies[Len(proxies)].items = Cleaned
             /\ proxies[Len(proxies)].call_reducer = Some(Atom("cleaner"))

\* A proxy of three branches with the reducer cleaner has been called; two
\* of its branches returned None, and the proxy returned holds all three
\* results.
C14_Witness ==
    /\ call.name = "__call__"
    /\ proxies[call.self].call_reducer = Some(Atom("cleaner"))
    /\ Len(trace) = 3
    /\ ~IsNone(trace[1]) /\ IsNone(trace[2]) /\ IsNone(trace[3])
    /\ ret = Ref(Len(proxies))
    /\ Len(proxies[Len(proxies)].items) = 3

\* The arguments a group was last constructed from.
Joined == IF call.name = "join" THEN <<call.self>> \o call.args ELSE call.args

\* The members an argument stands for: its own when it is a group.
MembersOf(a) == IF IsGroup(a) THEN groups[a.group].children ELSE <<a>>

\* The number of members of the first j arguments.
RECURSIVE MemberCount(_, _)
MemberCount(args, j) ==
    IF j = 0 THEN 0 ELSE MemberCount(args, j - 1) + Len(MembersOf(args[j]))

\* C15: no member of a group is a group; a group constructed by join or by
\* the constructor holds its arguments' members in argument order, each group
\* argument's members spliced in at its position, as many as the arguments'
\* member counts sum to; constructing from zero arguments raises ValueError.
C15_GroupsAreFlat ==
    /\ \A g \in DOMAIN groups : \A i \in DOMAIN groups[g].children :
          ~IsGroup(groups[g].children[i])
    /\ (call.name \in {"join", "PlotDataSets"} /\ err = "") =>
          LET made == groups[Len(groups)].children
          IN /\ ret = GroupRef(Len(groups))
             /\ Len(made) = MemberCount(Joined, Len(Joined))
             /\ \A j \in DOMAIN Joined :
                   \A k \in DOMAIN MembersOf(Joined[j]) :
                      made[MemberCount(Joined, j - 1) + k] = MembersOf(Joined[j])[k]
    /\ (call.name = "PlotDataSets" /\ call.args = <<>>) => err = "ValueError"

\* C15 witness: a group joined with a group made after the factory's and
\* with a single wrapper.
C15_Witness ==
    /\ call.name = "join"
    /\ IsGroup(call.self)
    /\ Len(call.args) = 2
    /\ IsGroup(call.args[1])
    /\ call.args[1].group > 1
    /\ err = ""
    /\ Len(groups[Len(groups)].children) = 4

\* The batch size of the last call of batched.
BatchSize == call.args[1]

\* The sub-groups the last batched returned: the items of its proxy.
Batches == proxies[ret.ref].items

\* C16: batched(n) with n >= 1 on a group of m members returns ceil(m/n)
\* sub-groups in order, each of exactly n members except possibly the last,
\* whose members concatenated are the group's members; on a single wrapper it
\* returns that wrapper.
C16_Batched ==
    (call.name = "batched" /\ BatchSize >= 1) =>
        IF IsGroup(call.self)
        THEN LET members == groups[call.self.group].children
                 m == Len(members)
                 n == BatchSize
             IN /\ err = ""
                /\ ret = Ref(Len(proxies))
                /\ (Len(Batches) - 1) * n < m
                /\ m <= Len(Batches) * n
                /\ \A k \in DOMAIN Batches :
                      /\ IsGroup(Batches[k])
                      /\ LET batch == groups[Batches[k].group].children
                         IN /\ k < Len(Batches) => Len(batch) = n
                            /\ k = Len(Batches) => Len(batch) = m - (k - 1) * n
                            /\ \A j \in DOMAIN batch : batch[j] = members[(k - 1) * n + j]
        ELSE /\ err = ""
             /\ ret = call.self

\* C16 witness: size 2 on a group of 3 members gave sub-groups of 2 and 1.
C16_Witness ==
    /\ call.name = "batched"
    /\ BatchSize = 2
    /\ IsGroup(call.self)
    /\ Len(groups[call.self.group].children) = 3
    /\ Len(Batches) = 2
    /\ Len(groups[Batches[1].group].children) = 2
    /\ Len(groups[Batches[2].group].children) = 1

\* C17: batched(n) with n <= 0 raises ValueError on a single wrapper and on
\* a group alike, constructs no sub-group and no proxy, and leaves the
\* receiver as it was.
C17_InvalidBatchSize ==
    [][(call'.name = "batched" /\ call'.args[1] <= 0) =>
          /\ err' = "ValueError"
          /\ UNCHANGED <<objs, groups, proxies>>]_vars

\* C17 witness: a group asked for batches of size 0, after an earlier call.
C17_Witness ==
    /\ call.name = "batched"
    /\ BatchSize = 0
    /\ IsGroup(call.self)
    /\ err = "ValueError"
    /\ steps > 1

\* C18: for single-dimensional input (x an array, or a list that contains no
\* array) the factory raises ValueError when label is a list, and otherwise
\* returns a single wrapper labelled with the given string, or "x1" when
\* label is None.
C18_FactorySingle ==
    (call.name = "data" /\ ~HasArrays(call.args[1])) =>
        IF call.args[2].kind = "list" THEN err = "ValueError"
        ELSE /\ err = ""
             /\ ret = WrapperRef(Len(objs))
             /\ objs[Len(objs)].label =
                   (IF call.args[2].kind = "none" THEN <<"x1">> ELSE call.args[2].s)

\* C18 witness: a list of numbers given with a list of labels was rejected
\* after a wrapper had been made.
C18_Witness ==
    /\ call.name = "data"
    /\ call.args[1] = ListInput(<<Leaf("1"), Leaf("2")>>)
    /\ call.args[2] = ListLabel(<<<<"p">>, <<"q">>>>)
    /\ err = "ValueError"
    /\ Len(objs) = 1

\* The settings of the receiver before and after a step, and the keywords of
\* the call the step made.
Before == objs[call'.self].settings
After == objs'[call'.self].settings
Supplied == {<<call'.args[n][1], call'.args[n][2]>> : n \in DOMAIN call'.args}

\* C19: for every recognized key, set_default leaves a field that is not
\* None as it is and fills a field that is None with the supplied value; _set
\* given a value that is not None leaves the field equal to exactly that
\* value, whatever the field held before.
C19_SettersOverwrite ==
    [][/\ call'.name = "set_default" =>
            \A k \in DOMAIN Before :
                /\ Before[k] # None => After[k] = Before[k]
                /\ Before[k] = None =>
                      \A kv \in Supplied : kv[1] = k => After[k] = kv[2]
       /\ call'.name = "_set" =>
            \A kv \in Supplied :
                (kv[1] \in DOMAIN Before /\ kv[2] # None) => After[kv[1]] = kv[2]
      ]_vars

\* The record handed to loading by the step.
Source == objs[call'.args[1]].settings

\* C20: loading(s) sets every field of the receiver to s's value where that
\* is not None, leaves every other field as it is, and does not modify s.
C20_Loading ==
    [][call'.name = "loading" =>
          /\ \A k \in DOMAIN Before :
                IF k \in DOMAIN Source /\ Source[k] # None
                THEN After[k] = Source[k]
                ELSE After[k] = Before[k]
          /\ objs'[call'.args[1]].settings = Source
      ]_vars

\* The number of substitution slots of a template.
RECURSIVE Slots(_)
Slots(fmt) ==
    IF fmt = <<>> THEN 0
    ELSE (IF Head(fmt) = "{0}" THEN 1 ELSE 0) + Slots(Tail(fmt))

\* The wrapper the last call was made on, and the one it constructed.
Receiver == objs[call.self]
Constructed == objs[Len(objs)]

\* C21: every wrapper's template has at least one slot for the label: a
\* reset leaves exactly one, demean constructs a template with twice and zscore
\* one with three times the receiver's slots, and every other transform keeps
\* the receiver's number, which is one for a wrapper from the factory.
C21_Slots ==
    /\ \A i \in Ids : Slots(objs[i].fmt_) >= 1
    /\ (call.name \in {"opclear", "opclear_records_only"}) =>
          Slots(Receiver.fmt_) = 1
    /\ (err = "" /\ call.name = "demean") =>
          Slots(Constructed.fmt_) = 2 * Slots(Receiver.fmt_)
    /\ (err = "" /\ call.name = "zscore") =>
          Slots(Constructed.fmt_) = 3 * Slots(Receiver.fmt_)
    /\ (err = "" /\ call.name \in
            {"__neg__", "__binary_operation", "log", "exp", "cumsum", "rolling"}) =>
          Slots(Constructed.fmt_) = Slots(Receiver.fmt_)

\* C21 witness: zscore applied to a wrapper made by demean.
C21_Witness ==
    /\ call.name = "zscore"
    /\ Slots(Receiver.fmt_) = 2
    /\ Slots(Constructed.fmt_) = 6

\* C21 as claimed: every wrapper's template has exactly one slot.
C21_Claimed == \A i \in Ids : Slots(objs[i].fmt_) = 1

\* The nesting depth of parentheses after the first n tokens of s.
RECURSIVE Depth(_, _)
Depth(s, n) ==
    IF n = 0 THEN 0
    ELSE Depth(s, n - 1)
           + (IF s[n] = "(" THEN 1 ELSE IF s[n] = ")" THEN -1 ELSE 0)

\* Every parenthesis of s has its partner.
Balanced(s) ==
    /\ Depth(s, Len(s)) = 0
    /\ \A n \in 1..Len(s) : Depth(s, n) >= 0

\* s starts with "(" and ends with ")".
Bracketed(s) == Len(s) >= 2 /\ s[1] = "(" /\ s[Len(s)] = ")"

\* The first and the last token of s are parentheses that match each other.
OuterPair(s) ==
    /\ Bracketed(s)
    /\ Depth(s, Len(s)) = 0
    /\ \A n \in 1..(Len(s) - 1) : Depth(s, n) >= 1

\* C22: fmt is the template without its first and last token when the
\* template starts with "(" and ends with ")", and the template otherwise;
\* formatted_label at priority 0 is that text with the label filled in; the
\* two parentheses removed match each other, so what is left is balanced.
C22_FormulaView ==
    \A i \in Ids :
        LET t == objs[i].fmt_
        IN /\ Fmt(objs[i]) = (IF Bracketed(t) THEN SubSeq(t, 2, Len(t) - 1) ELSE t)
           /\ FormattedLabel(objs[i], 0) = Format(Fmt(objs[i]), objs[i].label)
           /\ Bracketed(t) => OuterPair(t)
           /\ Balanced(Fmt(objs[i]))

\* C26: a wrapper whose template is the bare placeholder has the precedence
\* tag 0 of a wrapper from the factory, also after opclear() or
\* opclear_records_only() on the result of an arithmetic operation.
C26_BareTemplateHasPriorityZero ==
    \A i \in Ids : objs[i].fmt_ = <<"{0}">> => objs[i].last_op_prior = 0

\* The wrapper objs[c] was produced by a binary operation between two wrappers.
BetweenWrappers(c) ==
    /\ IsBinary(objs[c].data)
    /\ objs[c].data.args[1].op \notin Scalars
    /\ objs[c].data.args[2].op \notin Scalars

\* The methods that change the instance they are called on.
Changing == {"set_label", "opclear", "opclear_records_only"}

\* C30: for a wrapper c produced by a binary operation between two wrappers,
\* relabelling or resetting any other wrapper leaves c as it was (its rendered
\* formula, data and label with it), and relabelling c changes nothing but
\* c's label: its template, with the text the right operand had when the
\* operation was applied, its data and every other wrapper stay as they were.
C30_OperandsIndependent ==
    [][\A c \in Ids :
          BetweenWrappers(c) =>
            /\ (call'.name \in Changing /\ call'.self # c) =>
                  /\ objs'[c] = objs[c]
                  /\ FormattedLabel(objs'[c], 0) = FormattedLabel(objs[c], 0)
            /\ (call'.name = "set_label" /\ call'.self = c) =>
                  /\ objs'[c].fmt_ = objs[c].fmt_
                  /\ objs'[c].data = objs[c].data
                  /\ \A k \in Ids \ {c} : objs'[k] = objs[k]
      ]_vars

\* C30 witness: b was relabelled after c = a op b was built, and c's formula
\* still shows the label b had.
C30_Witness ==
    /\ Len(objs) = 5
    /\ objs[5].data.args = <<Leaf("A"), Leaf("B")>>
    /\ call.name = "set_label"
    /\ call.self = 2
    /\ objs[2].label = <<"n">>
    /\ \E n \in DOMAIN Formula(5) : Formula(5)[n] = "b"

\* The arguments of the last call of the factory.
GivenX == call.args[1]
GivenLabel == call.args[2]

\* C29: data(x, label) with x a list of arrays and label None or a list
\* returns a group of exactly len(x) members in input order, the i-th wrapping
\* x[i] and labelled label[i], or "x{i}" when label is None; no array is
\* dropped, whatever the length of the label list.
C29_FactoryGroup ==
    (/\ call.name = "data"
     /\ GivenX.kind = "list"
     /\ GivenX.xs # <<>>
     /\ \A i \in DOMAIN GivenX.xs : GivenX.xs[i].op \in Arrays
     /\ GivenLabel.kind \in {"none", "list"}) =>
        /\ err = ""
        /\ IsGroup(ret)
        /\ LET members == groups[ret.group].children
           IN /\ Len(members) = Len(GivenX.xs)
              /\ \A i \in DOMAIN members :
                    /\ objs[members[i].set].data = GivenX.xs[i]
                    /\ GivenLabel.kind = "none" =>
                          objs[members[i].set].label = <<XName(i)>>
                    /\ (GivenLabel.kind = "list" /\ i \in DOMAIN GivenLabel.ls) =>
                          objs[members[i].set].label = GivenLabel.ls[i]

\* The keywords of the step's call that can change a field when handed to
\* _set: a recognized key with a value that is not None.
Effective ==
    {kv \in Supplied : kv[1] \in DOMAIN Before /\ kv[2] # None}

\* C28: under _set, set_default and loading no field that is not None
\* becomes None; _set with None values and keys that are not recognized, and
\* set_default with keys that are not recognized, raise nothing and change no
\* field.
C28_SetFieldsStaySet ==
    [][/\ \A i \in DOMAIN objs : \A k \in DOMAIN objs[i].settings :
            objs[i].settings[k] # None => objs'[i].settings[k] # None
       /\ (call'.name = "_set" /\ Effective = {}) =>
            (objs' = objs /\ err' = "")
       /\ (call'.name = "set_default"
             /\ \A kv \in Supplied : kv[1] \notin DOMAIN Before) =>
            (objs' = objs /\ err' = "")
      ]_vars

\* C28 witness: _set(grid=..., title=None) on an instance whose title is set.
C28_Witness ==
    /\ call.name = "_set"
    /\ call.args = << <<"grid", Some(Str("G"))>>, <<"title", None>> >>
    /\ objs[call.self].settings["title"] # None
    /\ err = ""

\* The artist of the last call, and whether that call was a paint or a plot
\* call of a wrapper.
Painter == call.args[1]
Painted == call.name \in {"paint", "hist", "qqplot"}
PlotCalls == {"hist", "qqplot"}

Calls(op) == {n \in DOMAIN trace : trace[n].op = op}
Drawing == Calls("hist") \cup Calls("plot") \cup Calls("scatter")

\* C23: a plot call of a wrapper without a target surface creates exactly one
\* figure, before anything is drawn, and finalizes, shows and closes it exactly
\* once, in that order and after all drawing, whether painting raised or not;
\* with a target surface it creates, shows and closes no figure and draws only
\* on that surface.
C23_FigureScoped ==
    call.name \in PlotCalls =>
        IF Painter.on = None
        THEN /\ \A op \in {"subplots", "ax.exit", "show", "close"} :
                    Cardinality(Calls(op)) = 1
             /\ \A f \in Calls("subplots"), x \in Calls("ax.exit"),
                   w \in Calls("show"), c \in Calls("close") :
                    /\ f < x /\ x < w /\ w < c
                    /\ \A n \in Drawing : f < n /\ n < x
             /\ \A n \in DOMAIN trace : trace[n].on = 0
        ELSE /\ \A op \in {"subplots", "ax.exit", "show", "close"} : Calls(op) = {}
             /\ \A n \in DOMAIN trace : trace[n].on = Painter.on[1]

C23_Witness ==
    /\ call.name = "hist"
    /\ Painter.on = None
    /\ err = "ExternalError"
    /\ Cardinality(Calls("show")) = 1
    /\ Cardinality(Calls("close")) = 1

\* C24: a Q-Q or K-S plot against a distribution name other than "normal" and
\* "exponential" raises an unknown-distribution error, and no drawing primitive
\* is invoked, no axes setting is changed and no chart is shown.
C24_UnknownDistributionRejected ==
    [][(/\ steps' # steps
        /\ call'.name \in {"paint", "qqplot"}
        /\ call'.args[1].kind \in {"QQPlot", "KSPlot"}
        /\ call'.args[1].dist.kind = "str"
        /\ call'.args[1].dist.name \notin {"normal", "exponential"}) =>
            /\ err' = "UnknownDistributionError"
            /\ \A n \in DOMAIN trace' :
                    trace'[n].op \notin {"hist", "plot", "scatter", "show"}
            /\ objs' = objs]_vars

\* The value that the plot type of the artist a gives to the key k when
\* nobody set one, None when it gives none.
TypeDefault(a, k) ==
    IF k = "title"
    THEN Some(Str(IF a.kind = "Histogram" THEN "Histogram"
                  ELSE IF a.kind = "QQPlot" THEN "Quantile-Quantile Plot"
                  ELSE "Kolmogorov-Smirnov Plot"))
    ELSE IF k = "xlabel"
    THEN IF a.kind = "QQPlot"
         THEN IF a.dist.kind = "str"
              THEN Some(Text(" theoretical quantiles", a.dist.name))
              ELSE Some(Str("sample theoretical quantiles"))
         ELSE Some(Str("value"))
    ELSE IF k = "ylabel"
    THEN IF a.kind = "Histogram" THEN Some(Str("density"))
         ELSE IF a.kind = "QQPlot" THEN Some(Text(" quantiles", a.label[1]))
         ELSE Some(Str("cummulative probability"))
    ELSE IF k = "alpha" /\ a.kind = "Histogram" THEN Some(Str("1.0"))
    ELSE None

\* The artist's own value, else the value the axes had, else the default.
Resolved(a, before, k) ==
    IF a.settings[k] # None THEN a.settings[k]
    ELSE IF before[k] # None THEN before[k]
    ELSE TypeDefault(a, k)

\* Painting by the step on axes that the caller gave, without an error.
PaintsOn(a, on) ==
    /\ steps' # steps
    /\ call'.name \in {"paint", "hist", "qqplot"}
    /\ a = call'.args[1]
    /\ a.on = Some(on)
    /\ a.data # None /\ a.label # None
    /\ err' = ""

\* C27 as stated: after painting, every settings key of the axes holds the
\* artist's own value if set, else the value the axes had if set, else the plot
\* type's default.
C27_Claimed ==
    [][\A on \in DOMAIN objs : \A a \in {call'.args[n] : n \in DOMAIN call'.args} :
        PaintsOn(a, on) =>
            \A k \in DOMAIN objs[on].settings :
                objs'[on].settings[k] = Resolved(a, objs[on].settings, k)]_vars

\* C27: after painting, every settings key of the axes holds the artist's own
\* value if set, else the value the axes had if set, else the plot type's
\* default; except that a histogram painted with stats on holds for xlabel
\* that value followed by a line break and the line of statistics.
C27_SettingsResolved ==
    [][\A on \in DOMAIN objs : \A a \in {call'.args[n] : n \in DOMAIN call'.args} :
        PaintsOn(a, on) =>
            \A k \in DOMAIN objs[on].settings :
                objs'[on].settings[k] =
                    IF a.kind = "Histogram" /\ a.stats /\ k = "xlabel"
                    THEN Some([str |-> "\n", of |-> a.label[1],
                               after |-> Resolved(a, objs[on].settings, k)[1]])
                    ELSE Resolved(a, objs[on].settings, k)]_vars

C27_Witness ==
    /\ call.name = "hist"
    /\ err = ""
    /\ Painter.on = Some(2)
    /\ Painter.settings["title"] = None
    /\ Painter.settings["xlabel"] = Some(Str("U"))
    /\ objs[2].settings["title"] = Some(Str("T"))
    /\ objs[2].settings["ylabel"] = Some(Str("density"))

====
